---- MODULE Spec2Model ----
(***************************************************************************)
(* Host side of the browser Native Messaging protocol                      *)
(* (src/src/host.rs): the frame codec, the blocking transport adapter and  *)
(* the send paths.                                                         *)
(*                                                                         *)
(* Representation.                                                         *)
(*  - A byte string (Vec<u8>, &[u8], String) is a run-length encoded       *)
(*    sequence of runs [b |-> byte, n |-> count], n >= 1, adjacent runs    *)
(*    holding different bytes.  The encoding is canonical, so equality of  *)
(*    byte strings is equality of values, and a payload of 1 MiB or 64 MiB *)
(*    is one run.                                                          *)
(*  - A usize or u32 that can exceed the model checker's integers (a       *)
(*    declared length, a caller's max_size such as usize::MAX) is kept as  *)
(*    its base-256 digits, least significant first: 4 digits for a u32,    *)
(*    8 for a usize (a 64-bit target).  Lengths of byte strings that       *)
(*    exist in memory are ordinary integers.                               *)
(*  - The native byte order is a property of the platform: the variable    *)
(*    endian is chosen in Init and never changes.                          *)
(***************************************************************************)
EXTENDS Integers, Sequences, FiniteSets, TLC

VARIABLES
    endian,   \* "little" or "big": the byte order of to_ne_bytes / from_ne_bytes
    value,    \* the value handed to encode_message, or NoValue
    frame,    \* what encode_message(value) returned, once called
    reader,   \* the blocking reader handed to the decode functions
    w,        \* the blocking writer handed to send_frame / send_json
    outq,     \* the writer queue: frames accepted by Sender::send, oldest first
    wtask,    \* the writer task: "running" or "ended"
    stdout,   \* the process's standard output, a writer
    ncalls,   \* the number of operations called so far
    call,     \* the last operation called and its arguments
    ret,      \* what that operation returned
    results,  \* what the successive decode calls of a reading loop returned
    stdin,    \* the process's standard input: a reader, open or closed by the browser
    rtask,    \* the reader task of spawn_reader: where it is, and the item it holds
    inq,      \* the reader queue: decoded items not yet received by event_loop
    loop,     \* event_loop: where it is, and what it returned
    running,  \* the handler invocations whose future has not completed
    handler,  \* what the user's handler does with a message
    subtasks, \* the sub-tasks of handlers that hold a Sender clone and have yet to send
    received, \* the items event_loop took from the reader queue, oldest first
    dispatched, \* the messages handed to the handler, oldest first
    outcomes, \* what the completed handler invocations returned, oldest first
    accepted, \* the frames accepted by the writer queue, oldest first
    users,    \* the tasks that have read stdin and those that have written stdout
    others,   \* the reader task of a further spawn_reader call and its channel,
              \* and the blocking tasks that decode from stdin side by side
    disk      \* the file system and the registry the installer works on

pump_vars ==
    <<stdin, rtask, inq, loop, running, handler, subtasks, received, dispatched, outcomes,
      accepted, users, others, disk>>

vars ==
    <<endian, value, frame, reader, w, outq, wtask, stdout, ncalls, call, ret, results,
      pump_vars>>

\* CHOOSE y_ \in { body : x \in {e} } : TRUE is body with x bound to e, and e
\* evaluated once, where it is bound

(***************************************************************************)
(* Byte strings                                                            *)
(***************************************************************************)
Rep(b, n) == IF n <= 0 THEN <<>> ELSE <<[b |-> b, n |-> n]>>

RECURSIVE BLen(_)
BLen(s0) == (CHOOSE y_ \in {IF s = <<>> THEN 0 ELSE s[1].n + BLen(Tail(s)) : s \in {s0}} : TRUE)

\* concatenation, merging the two runs that meet when they hold the same byte
Cat(s0, t0) ==
    (CHOOSE y_ \in {(CHOOSE y_ \in {
        IF s = <<>> THEN t
        ELSE IF t = <<>> THEN s
        ELSE IF s[Len(s)].b = t[1].b
             THEN SubSeq(s, 1, Len(s) - 1)
                  \o <<[b |-> t[1].b, n |-> s[Len(s)].n + t[1].n]>>
                  \o Tail(t)
             ELSE s \o t
    : t \in {t0}} : TRUE) : s \in {s0}} : TRUE)

RECURSIVE BTake(_, _)
BTake(s0, k0) ==
    (CHOOSE y_ \in {(CHOOSE y_ \in {
        IF k <= 0 \/ s = <<>> THEN <<>>
        ELSE IF s[1].n >= k THEN <<[b |-> s[1].b, n |-> k]>>
        ELSE <<s[1]>> \o BTake(Tail(s), k - s[1].n)
    : k \in {k0}} : TRUE) : s \in {s0}} : TRUE)

RECURSIVE BDrop(_, _)
BDrop(s0, k0) ==
    (CHOOSE y_ \in {(CHOOSE y_ \in {
        IF k <= 0 \/ s = <<>> THEN s
        ELSE IF s[1].n > k THEN <<[b |-> s[1].b, n |-> s[1].n - k]>> \o Tail(s)
        ELSE BDrop(Tail(s), k - s[1].n)
    : k \in {k0}} : TRUE) : s \in {s0}} : TRUE)

Slice(s, from, n) == BTake(BDrop(s, from), n)

\* the byte string of an explicit sequence of bytes
RECURSIVE Lit(_)
Lit(q0) == (CHOOSE y_ \in {IF q = <<>> THEN <<>> ELSE Cat(Rep(q[1], 1), Lit(Tail(q))) : q \in {q0}} : TRUE)

\* the explicit sequence of bytes of a (short) byte string
RECURSIVE Explode(_)
Explode(s0) ==
    (CHOOSE y_ \in {
        IF s = <<>> THEN <<>>
        ELSE <<s[1].b>> \o Explode(BDrop(s, 1))
    : s \in {s0}} : TRUE)

IsPrefix(p, s) == BTake(s, BLen(p)) = p

(***************************************************************************)
(* Wide unsigned integers: base-256 digits, least significant first        *)
(***************************************************************************)
Pow256(i) == IF i = 0 THEN 1 ELSE IF i = 1 THEN 256 ELSE IF i = 2 THEN 65536 ELSE 16777216

\* a cast that keeps the low 16 bits only
U32_low16(n0) == [i \in 1..4 |-> IF i <= 2 THEN (n0 \div Pow256(i - 1)) % 256 ELSE 0]

\* the u32 of a non-negative integer: `n as u32` (n is below 2^31 here, so
\* the cast keeps it)
U32(n0) == (CHOOSE y_ \in {[i \in 1..4 |-> (n \div Pow256(i - 1)) % 256] : n \in {n0}} : TRUE)

\* `x as usize` of a u32: zero extension
AsUsize(d0) == (CHOOSE y_ \in {[i \in 1..8 |-> IF i <= Len(d) THEN d[i] ELSE 0] : d \in {d0}} : TRUE)

Usize(n) == AsUsize(U32(n))

usize_MAX == [i \in 1..8 |-> 255]

\* a > b on digit strings of the same width
WideGt(a, b) ==
    \E i \in 1..Len(a) :
        /\ a[i] > b[i]
        /\ \A j \in (i + 1)..Len(a) : a[j] = b[j]

\* usize::min
WideMin(a, b) == IF WideGt(a, b) THEN b ELSE a

\* the integer of a digit string.  A length of 2^31 or more is longer than
\* every stream of the model and is read as 2^31 - 1, which no stream of the
\* model supplies either; the cap keeps such a length from being used.
ToInt(d) ==
    IF d[4] >= 128 \/ \E i \in 5..Len(d) : d[i] # 0 THEN 2147483647
    ELSE d[1] + 256 * d[2] + 65536 * d[3] + 16777216 * d[4]

\* u32::to_ne_bytes and u32::from_ne_bytes on the platform's byte order
Reverse4(d) == <<d[4], d[3], d[2], d[1]>>

\* the prefix written in a fixed (big-endian) order instead of the native one
to_be_bytes(d) == Reverse4(d)

to_ne_bytes(d) == IF endian = "little" THEN <<d[1], d[2], d[3], d[4]>> ELSE Reverse4(d)

from_ne_bytes(q) == IF endian = "little" THEN <<q[1], q[2], q[3], q[4]>> ELSE Reverse4(q)

(***************************************************************************)
(* Protocol constants                                                      *)
(***************************************************************************)
MAX_TO_BROWSER == 1048576

MAX_FROM_BROWSER == 64 * 1048576

(***************************************************************************)
(* Results and errors (NmError)                                            *)
(***************************************************************************)
Ok(x) == [ok |-> TRUE, val |-> x]

Err(e) == [ok |-> FALSE, err |-> e]

None == [some |-> FALSE]

Some(x) == [some |-> TRUE, v |-> x]

Unit == "()"

Disconnected == [kind |-> "Disconnected"]

OutgoingTooLarge(len, max) == [kind |-> "OutgoingTooLarge", len |-> len, max |-> max]

IncomingTooLarge(len, max) == [kind |-> "IncomingTooLarge", len |-> len, max |-> max]

IncomingNotUtf8 == [kind |-> "IncomingNotUtf8"]

SerializeJson == [kind |-> "SerializeJson"]

Io(k) == [kind |-> "Io", io |-> k]

\* the oneshot channel's sender was dropped before it sent
OneshotRecv == [kind |-> "OneshotRecv"]

(***************************************************************************)
(* String::from_utf8: validation of a byte string as UTF-8, run by run.    *)
(* need is the number of continuation bytes still owed, lo..hi the range   *)
(* the next continuation byte must lie in.                                 *)
(***************************************************************************)
RECURSIVE Utf8Ok(_, _, _, _)
Utf8Ok(s0, need, lo, hi) ==
    (CHOOSE y_ \in {
    IF s = <<>> THEN need = 0
    ELSE LET b == s[1].b
             n == s[1].n
             rest == Tail(s)
         IN  IF need > 0
             THEN /\ b >= lo /\ b <= hi
                  /\ n <= need
                  /\ Utf8Ok(rest, need - n, 128, 191)
             ELSE IF b <= 127 THEN Utf8Ok(rest, 0, 128, 191)
             ELSE IF n > 1 THEN FALSE
             ELSE IF b >= 194 /\ b <= 223 THEN Utf8Ok(rest, 1, 128, 191)
             ELSE IF b = 224 THEN Utf8Ok(rest, 2, 160, 191)
             ELSE IF b = 237 THEN Utf8Ok(rest, 2, 128, 159)
             ELSE IF b >= 225 /\ b <= 239 THEN Utf8Ok(rest, 2, 128, 191)
             ELSE IF b = 240 THEN Utf8Ok(rest, 3, 144, 191)
             ELSE IF b >= 241 /\ b <= 243 THEN Utf8Ok(rest, 3, 128, 191)
             ELSE IF b = 244 THEN Utf8Ok(rest, 3, 128, 143)
             ELSE FALSE
    : s \in {s0}} : TRUE)

\* String::from_utf8(buf).map(Some).map_err(IncomingNotUtf8)
from_utf8(buf) == IF Utf8Ok(buf, 0, 128, 191) THEN Ok(Some(buf)) ELSE Err(IncomingNotUtf8)

(***************************************************************************)
(* JSON values (serde_json::Value) and their compact serialization.        *)
(* A string holds its UTF-8 bytes; an object holds its members in key      *)
(* order, as serde_json's map serializes them.  JBad stands for a value    *)
(* whose Serialize implementation fails (a map with non-string keys).      *)
(***************************************************************************)
JNull == [k |-> "null"]

JBool(x) == [k |-> "bool", v |-> x]

JNum(x) == [k |-> "num", v |-> x]

JStr(x) == [k |-> "str", v |-> x]

JArr(x) == [k |-> "arr", v |-> x]

JObj(x) == [k |-> "obj", v |-> x]

JBad == [k |-> "bad"]

QUOTE == Lit(<<34>>)

RECURSIVE Digits(_)
Digits(n0) ==
    (CHOOSE y_ \in {
        IF n < 10 THEN Lit(<<48 + n>>) ELSE Cat(Digits(n \div 10), Lit(<<48 + (n % 10)>>))
    : n \in {n0}} : TRUE)

\* n copies of the two-byte escape \c
RECURSIVE EscRun(_, _)
EscRun(c, n) == IF n = 0 THEN <<>> ELSE Cat(Lit(<<92, c>>), EscRun(c, n - 1))

\* the escaped form of a string's bytes; the modelled strings hold no
\* control characters, which are the only other characters serde_json escapes
RECURSIVE Escape(_)
Escape(s0) ==
    (CHOOSE y_ \in {
        IF s = <<>> THEN <<>>
        ELSE IF s[1].b = 34 \/ s[1].b = 92
             THEN Cat(EscRun(s[1].b, s[1].n), Escape(Tail(s)))
             ELSE Cat(<<s[1]>>, Escape(Tail(s)))
    : s \in {s0}} : TRUE)

SerStr(s) == Cat(QUOTE, Cat(Escape(s), QUOTE))

RECURSIVE Ser(_)
RECURSIVE SerItems(_)
RECURSIVE SerMembers(_)
Ser(v0) ==
    (CHOOSE y_ \in {
    IF v.k = "null" THEN Lit(<<110, 117, 108, 108>>)
    ELSE IF v.k = "bool"
         THEN (IF v.v THEN Lit(<<116, 114, 117, 101>>) ELSE Lit(<<102, 97, 108, 115, 101>>))
    ELSE IF v.k = "num" THEN Digits(v.v)
    ELSE IF v.k = "str" THEN SerStr(v.v)
    ELSE IF v.k = "arr" THEN Cat(Lit(<<91>>), Cat(SerItems(v.v), Lit(<<93>>)))
    ELSE Cat(Lit(<<123>>), Cat(SerMembers(v.v), Lit(<<125>>)))
    : v \in {v0}} : TRUE)

SerItems(q) ==
    IF q = <<>> THEN <<>>
    ELSE IF Len(q) = 1 THEN Ser(q[1])
    ELSE Cat(Ser(q[1]), Cat(Lit(<<44>>), SerItems(Tail(q))))

SerMembers(q) ==
    IF q = <<>> THEN <<>>
    ELSE LET m == Cat(SerStr(q[1][1]), Cat(Lit(<<58>>), Ser(q[1][2])))
         IN  IF Len(q) = 1 THEN m ELSE Cat(m, Cat(Lit(<<44>>), SerMembers(Tail(q))))

RECURSIVE Serializable(_)
Serializable(v) ==
    IF v.k = "bad" THEN FALSE
    ELSE IF v.k = "arr" THEN \A i \in 1..Len(v.v) : Serializable(v.v[i])
    ELSE IF v.k = "obj" THEN \A i \in 1..Len(v.v) : Serializable(v.v[i][2])
    ELSE TRUE

\* serde_json::to_vec(msg).map_err(NmError::SerializeJson)
to_vec(v) == IF Serializable(v) THEN Ok(Ser(v)) ELSE Err(SerializeJson)

(***************************************************************************)
(* serde_json::from_str into a serde_json::Value: a recursive-descent      *)
(* parser.  Each parsing operator returns [ok, v, rest].  Numbers are the  *)
(* non-negative integers of at most nine digits; \u escapes are not        *)
(* modelled.                                                               *)
(***************************************************************************)
DeserializeJson == [kind |-> "DeserializeJson"]

PFail == [ok |-> FALSE]

PDone(v, rest) == [ok |-> TRUE, v |-> v, rest |-> rest]

IsWs(b) == b = 32 \/ b = 9 \/ b = 10 \/ b = 13

RECURSIVE Skip(_)
Skip(s) == IF s # <<>> /\ IsWs(s[1].b) THEN Skip(Tail(s)) ELSE s

Unescape(c) ==
    IF c = 34 \/ c = 92 \/ c = 47 THEN c
    ELSE IF c = 98 THEN 8
    ELSE IF c = 102 THEN 12
    ELSE IF c = 110 THEN 10
    ELSE IF c = 114 THEN 13
    ELSE IF c = 116 THEN 9
    ELSE -1

\* s is positioned after the opening quote
RECURSIVE PStrBody(_, _)
PStrBody(s, acc) ==
    IF s = <<>> THEN PFail
    ELSE IF s[1].b = 34 THEN PDone(acc, BDrop(s, 1))
    ELSE IF s[1].b = 92
         THEN LET t == BDrop(s, 1)
              IN  IF t = <<>> \/ Unescape(t[1].b) < 0 THEN PFail
                  ELSE PStrBody(BDrop(t, 1), Cat(acc, Rep(Unescape(t[1].b), 1)))
    ELSE IF s[1].b < 32 THEN PFail
    ELSE PStrBody(Tail(s), Cat(acc, <<s[1]>>))

IsDigit(b) == b >= 48 /\ b <= 57

RECURSIVE PDigits(_, _, _)
PDigits(s, acc, cnt) ==
    IF s # <<>> /\ IsDigit(s[1].b)
    THEN (IF cnt >= 9 THEN PFail ELSE PDigits(BDrop(s, 1), 10 * acc + (s[1].b - 48), cnt + 1))
    ELSE PDone(JNum(acc), s)

RECURSIVE PValue(_)
RECURSIVE PItems(_, _)
RECURSIVE PMembers(_, _)
PValue(s0) ==
    LET s == Skip(s0)
    IN  IF s = <<>> THEN PFail
        ELSE IF IsPrefix(Lit(<<110, 117, 108, 108>>), s) THEN PDone(JNull, BDrop(s, 4))
        ELSE IF IsPrefix(Lit(<<116, 114, 117, 101>>), s) THEN PDone(JBool(TRUE), BDrop(s, 4))
        ELSE IF IsPrefix(Lit(<<102, 97, 108, 115, 101>>), s) THEN PDone(JBool(FALSE), BDrop(s, 5))
        ELSE IF s[1].b = 48 THEN PDone(JNum(0), BDrop(s, 1))
        ELSE IF IsDigit(s[1].b) THEN PDigits(s, 0, 0)
        ELSE IF s[1].b = 34
             THEN LET r == PStrBody(BDrop(s, 1), <<>>)
                  IN  IF r.ok THEN PDone(JStr(r.v), r.rest) ELSE PFail
        ELSE IF s[1].b = 91
             THEN LET t == Skip(BDrop(s, 1))
                  IN  IF t # <<>> /\ t[1].b = 93 THEN PDone(JArr(<<>>), BDrop(t, 1))
                      ELSE PItems(t, <<>>)
        ELSE IF s[1].b = 123
             THEN LET t == Skip(BDrop(s, 1))
                  IN  IF t # <<>> /\ t[1].b = 125 THEN PDone(JObj(<<>>), BDrop(t, 1))
                      ELSE PMembers(t, <<>>)
        ELSE PFail

\* s is positioned at an array item
PItems(s, acc) ==
    LET r == PValue(s)
    IN  IF ~r.ok THEN PFail
        ELSE LET t == Skip(r.rest)
             IN  IF t = <<>> THEN PFail
                 ELSE IF t[1].b = 93 THEN PDone(JArr(Append(acc, r.v)), BDrop(t, 1))
                 ELSE IF t[1].b = 44 THEN PItems(BDrop(t, 1), Append(acc, r.v))
                 ELSE PFail

\* s is positioned at an object member's key
PMembers(s0, acc) ==
    LET s == Skip(s0)
    IN  IF s = <<>> \/ s[1].b # 34 THEN PFail
        ELSE LET key == PStrBody(BDrop(s, 1), <<>>)
             IN  IF ~key.ok THEN PFail
                 ELSE LET c == Skip(key.rest)
                      IN  IF c = <<>> \/ c[1].b # 58 THEN PFail
                          ELSE LET r == PValue(BDrop(c, 1))
                               IN  IF ~r.ok THEN PFail
                                   ELSE LET t == Skip(r.rest)
                                            m == Append(acc, <<key.v, r.v>>)
                                        IN  IF t = <<>> THEN PFail
                                            ELSE IF t[1].b = 125 THEN PDone(JObj(m), BDrop(t, 1))
                                            ELSE IF t[1].b = 44 THEN PMembers(BDrop(t, 1), m)
                                            ELSE PFail

\* serde_json::from_str::<Value>(s)
from_str(s) ==
    LET r == PValue(s)
    IN  IF r.ok /\ Skip(r.rest) = <<>> THEN Ok(r.v) ELSE Err(DeserializeJson)

\* The types recv_json is asked for: serde_json::Value, and the struct
\* MyMsg { a: u32, b: String } of the tests.  A derived Deserialize accepts an
\* object holding each field once (other members are ignored) or an array of
\* the fields in order.
Types == {"Value", "MyMsg"}

MyMsg(a, b) == [a |-> a, b |-> b]

Field(members, key) == SelectSeq(members, LAMBDA m : m[1] = key)

from_value(ty, v) ==
    IF ty = "Value" THEN Ok(v)
    ELSE IF v.k = "obj"
         THEN LET fa == Field(v.v, Lit(<<97>>))
                  fb == Field(v.v, Lit(<<98>>))
              IN  IF Len(fa) = 1 /\ Len(fb) = 1 /\ fa[1][2].k = "num" /\ fb[1][2].k = "str"
                  THEN Ok(MyMsg(fa[1][2].v, fb[1][2].v))
                  ELSE Err(DeserializeJson)
    ELSE IF v.k = "arr"
         THEN IF Len(v.v) = 2 /\ v.v[1].k = "num" /\ v.v[2].k = "str"
              THEN Ok(MyMsg(v.v[1].v, v.v[2].v))
              ELSE Err(DeserializeJson)
    ELSE Err(DeserializeJson)

\* serde_json::from_str::<T>(&s).map_err(NmError::DeserializeJson)
from_str_as(ty, s) ==
    LET r == from_str(s)
    IN  IF ~r.ok THEN r ELSE from_value(ty, r.val)

(***************************************************************************)
(* Blocking readers (std::io::Read).  A reader holds a byte stream and a   *)
(* position.  fault, when not NoFault, is the offset at which the          *)
(* underlying stream fails with an I/O error other than end-of-file (a     *)
(* broken pipe): bytes before that offset are delivered, a read that needs *)
(* a byte at or after it fails.                                            *)
(***************************************************************************)
NoFault == {}

Cursor(bytes) == [data |-> bytes, pos |-> 0, fault |-> NoFault]

FaultyReader(bytes, at) == [data |-> bytes, pos |-> 0, fault |-> {at}]

Remaining(r) == BLen(r.data) - r.pos

\* a read_exact that asks the stream for data even to fill an empty buffer
read_exact_probing(r, n) ==
    IF \E f \in r.fault : f - r.pos < n
    THEN [res |-> "BrokenPipe", buf |-> <<>>,
          reader |-> [r EXCEPT !.pos = CHOOSE q \in r.fault \cup {r.pos} :
                                           \A f \in r.fault \cup {r.pos} : q >= f]]
    ELSE IF Remaining(r) < n \/ Remaining(r) = 0
    THEN [res |-> "UnexpectedEof", buf |-> <<>>, reader |-> [r EXCEPT !.pos = BLen(r.data)]]
    ELSE [res |-> "ok", buf |-> Slice(r.data, r.pos, n), reader |-> [r EXCEPT !.pos = r.pos + n]]

\* Read::read_exact(&mut buf) with buf.len() = n: Ok with exactly n bytes, or
\* an error after consuming what the stream still had.  An empty buffer is
\* filled without touching the stream.
read_exact(r, n) ==
    IF n = 0 THEN [res |-> "ok", buf |-> <<>>, reader |-> r]
    ELSE IF \E f \in r.fault : f - r.pos < n
         THEN [res |-> "BrokenPipe", buf |-> <<>>,
               reader |-> [r EXCEPT !.pos = CHOOSE q \in r.fault \cup {r.pos} :
                                                \A f \in r.fault \cup {r.pos} : q >= f]]
    ELSE IF Remaining(r) < n
         THEN [res |-> "UnexpectedEof", buf |-> <<>>, reader |-> [r EXCEPT !.pos = BLen(r.data)]]
    ELSE [res |-> "ok", buf |-> Slice(r.data, r.pos, n), reader |-> [r EXCEPT !.pos = r.pos + n]]

(***************************************************************************)
(* Frame codec (host.rs, encode_message .. decode_message)                 *)
(***************************************************************************)
\* the prefix counting its own four bytes
encode_message_len_with_prefix(msg) ==
    LET json == to_vec(msg)
    IN  IF ~json.ok THEN Err(json.err)
        ELSE IF BLen(json.val) > MAX_TO_BROWSER
             THEN Err(OutgoingTooLarge(BLen(json.val), MAX_TO_BROWSER))
        ELSE Ok(Cat(Lit(to_ne_bytes(U32(BLen(json.val) + 4))), json.val))

\* the cap compared with >= instead of >
encode_message_ge(msg) ==
    LET json == to_vec(msg)
    IN  IF ~json.ok THEN Err(json.err)
        ELSE IF BLen(json.val) >= MAX_TO_BROWSER
             THEN Err(OutgoingTooLarge(BLen(json.val), MAX_TO_BROWSER))
        ELSE Ok(Cat(Lit(to_ne_bytes(U32(BLen(json.val)))), json.val))

encode_message(msg) ==
    (CHOOSE y_ \in {
        IF ~json.ok THEN Err(json.err)
        ELSE IF BLen(json.val) > MAX_TO_BROWSER
             THEN Err(OutgoingTooLarge(BLen(json.val), MAX_TO_BROWSER))
        ELSE Ok(Cat(Lit(to_ne_bytes(U32(BLen(json.val)))), json.val))
    : json \in {to_vec(msg)}} : TRUE)

\* the caller's max_size taken as the cap
EffectiveCap_caller(max_size) == max_size

\* let cap = max_size.min(MAX_FROM_BROWSER)
EffectiveCap(max_size) == WideMin(max_size, Usize(MAX_FROM_BROWSER))

\* every failure to read the prefix reported as an I/O error
OnPrefixError_strict(kind) == Err(Io(kind))

\* the two error arms of the match on the prefix's read_exact
OnPrefixError(kind) == IF kind = "UnexpectedEof" THEN Ok(None) ELSE Err(Io(kind))

\* if len > cap
OverCap(len, cap) == WideGt(len, cap)

\* the over-cap frame's body skipped before the error is returned
RejectTooLarge_skip_body(after_prefix, len, cap) ==
    [ret |-> Err(IncomingTooLarge(len, cap)),
     reader |-> [after_prefix EXCEPT !.pos = BLen(after_prefix.data)],
     alloc |-> Remaining(after_prefix)]

\* return Err(IncomingTooLarge { len, max: cap }), the reader left after the prefix
RejectTooLarge(after_prefix, len, cap) ==
    [ret |-> Err(IncomingTooLarge(len, cap)), reader |-> after_prefix, alloc |-> 0]

\* a body cut short by end-of-stream reported as a clean end-of-stream
ReadBody_eof_is_none(after_prefix, n) ==
    LET b == read_exact(after_prefix, n)
    IN  IF b.res = "UnexpectedEof"
        THEN [ret |-> Ok(None), reader |-> b.reader, alloc |-> n]
        ELSE IF b.res # "ok"
        THEN [ret |-> Err(Io(b.res)), reader |-> b.reader, alloc |-> n]
        ELSE [ret |-> from_utf8(b.buf), reader |-> b.reader, alloc |-> n]

\* a body that fails validation left unread on the stream
ReadBody_unread_on_bad_utf8(after_prefix, n) ==
    LET b == read_exact(after_prefix, n)
    IN  IF b.res # "ok"
        THEN [ret |-> Err(Io(b.res)), reader |-> b.reader, alloc |-> n]
        ELSE IF from_utf8(b.buf).ok
        THEN [ret |-> from_utf8(b.buf), reader |-> b.reader, alloc |-> n]
        ELSE [ret |-> from_utf8(b.buf), reader |-> after_prefix, alloc |-> n]

\* let mut buf = vec![0u8; len]; read_exact(&mut buf)?; String::from_utf8(buf)
ReadBody(after_prefix, n) ==
    (CHOOSE y_ \in {
        IF b.res # "ok"
        THEN [ret |-> Err(Io(b.res)), reader |-> b.reader, alloc |-> n]
        ELSE [ret |-> from_utf8(b.buf), reader |-> b.reader, alloc |-> n]
    : b \in {read_exact(after_prefix, n)}} : TRUE)

\* the stream read through a buffered reader made afresh by each call: what
\* the buffer (8 KiB) took from the stream beyond the frame is lost with it
decode_message_opt_rebuffered(r, max_size) ==
    LET cap == EffectiveCap(max_size)
        p == read_exact(r, 4)
        lost(rd) == [rd EXCEPT !.pos = IF BLen(rd.data) - rd.pos <= 8192
                                       THEN BLen(rd.data) ELSE rd.pos + 8192]
    IN  IF p.res # "ok"
        THEN [ret |-> OnPrefixError(p.res), reader |-> p.reader, alloc |-> 0]
        ELSE LET len == AsUsize(from_ne_bytes(Explode(p.buf)))
                 d == IF OverCap(len, cap) THEN RejectTooLarge(p.reader, len, cap)
                      ELSE ReadBody(p.reader, ToInt(len))
             IN  [d EXCEPT !.reader = lost(d.reader)]

\* decode_message_opt: what it returns, the reader it leaves, and the size of
\* the body buffer it allocated
decode_message_opt(r, max_size) ==
    (CHOOSE y_ \in {(CHOOSE y_ \in {
        IF p.res # "ok"
        THEN [ret |-> OnPrefixError(p.res), reader |-> p.reader, alloc |-> 0]
        ELSE (CHOOSE y_ \in {
                 IF OverCap(len, cap)
                 THEN RejectTooLarge(p.reader, len, cap)
                 ELSE ReadBody(p.reader, ToInt(len))
             : len \in {AsUsize(from_ne_bytes(Explode(p.buf)))}} : TRUE)
    : p \in {read_exact(r, 4)}} : TRUE) : cap \in {EffectiveCap(max_size)}} : TRUE)

\* a clean end-of-stream handed back as an empty message
ok_or_empty(res) ==
    IF ~res.ok THEN res
    ELSE IF res.val.some THEN Ok(res.val.v)
    ELSE Ok(<<>>)

\* decode_message_opt(reader, max_size)?.ok_or(NmError::Disconnected)
ok_or_Disconnected(res) ==
    IF ~res.ok THEN res
    ELSE IF res.val.some THEN Ok(res.val.v)
    ELSE Err(Disconnected)

decode_message(r, max_size) ==
    LET d == decode_message_opt(r, max_size)
    IN  [ret |-> ok_or_Disconnected(d.ret), reader |-> d.reader, alloc |-> d.alloc]

\* a clean end-of-stream parsed as an empty text
recv_json_eof_as_empty(r, max_size, ty) ==
    LET d == decode_message_opt(r, max_size)
    IN  IF ~d.ret.ok THEN [ret |-> d.ret, reader |-> d.reader, alloc |-> d.alloc]
        ELSE [ret |-> from_str_as(ty, IF d.ret.val.some THEN d.ret.val.v ELSE <<>>),
              reader |-> d.reader, alloc |-> d.alloc]

\* let s = decode_message(reader, max_size)?; from_str::<T>(&s).map_err(DeserializeJson)
recv_json(r, max_size, ty) ==
    LET d == decode_message(r, max_size)
    IN  IF ~d.ret.ok THEN d
        ELSE [ret |-> from_str_as(ty, d.ret.val), reader |-> d.reader, alloc |-> d.alloc]

(***************************************************************************)
(* Blocking writers (std::io::Write).  room, when not Unlimited, is the    *)
(* number of bytes the stream still accepts before a write fails (the      *)
(* consumer has gone); fail_flush makes flush fail.                        *)
(***************************************************************************)
Unlimited == {}

Writer(room, fail_flush) ==
    [buf |-> <<>>, flushes |-> 0, room |-> room, fail_flush |-> fail_flush, ops |-> <<>>]

\* Write::write_all(frame)
write_all(wr0, bytes0) ==
    (CHOOSE y_ \in {(CHOOSE y_ \in {
    LET called == Append(wr.ops, "write_all")
    IN  IF wr.room = Unlimited
        THEN [res |-> "ok", writer |-> [wr EXCEPT !.buf = Cat(wr.buf, bytes), !.ops = called]]
        ELSE LET k == CHOOSE x \in wr.room : TRUE
             IN  IF BLen(bytes) <= k
                 THEN [res |-> "ok",
                       writer |-> [wr EXCEPT !.buf = Cat(wr.buf, bytes),
                                             !.room = {k - BLen(bytes)}, !.ops = called]]
                 ELSE [res |-> "BrokenPipe",
                       writer |-> [wr EXCEPT !.buf = Cat(wr.buf, BTake(bytes, k)),
                                             !.room = {0}, !.ops = called]]
    : bytes \in {bytes0}} : TRUE) : wr \in {wr0}} : TRUE)

\* Write::flush()
flush(wr) ==
    LET called == Append(wr.ops, "flush")
    IN  IF wr.fail_flush THEN [res |-> "Other", writer |-> [wr EXCEPT !.ops = called]]
        ELSE [res |-> "ok", writer |-> [wr EXCEPT !.flushes = wr.flushes + 1, !.ops = called]]

(***************************************************************************)
(* The inputs of the codec                                                 *)
(***************************************************************************)
NoValue == [k |-> "none"]

NoResult == [ok |-> FALSE, err |-> [kind |-> "NotCalled"]]

NoCall == [op |-> "start"]

\* the most well-formed frames a stream of Init holds back to back
MaxFrames == 2

\* the most operations one behaviour calls
MaxCalls == 3

Text(q) == JStr(Lit(q))

\* a string of n bytes 'x'
Blob(n) == JStr(Rep(120, n))

SmallValues ==
    { JNull, JBool(TRUE), JBool(FALSE), JNum(0), JNum(42), JNum(1200),
      Text(<<>>), Text(<<97>>), Text(<<34>>), Text(<<92>>), Text(<<97, 34, 34, 92, 97>>),
      Text(<<104, 195, 169, 108, 108, 111>>), Text(<<240, 159, 140, 141>>),
      JArr(<<>>), JArr(<<JNum(7), Text(<<97>>)>>), JArr(<<JArr(<<JNull>>), JObj(<<>>)>>),
      JObj(<<>>), JObj(<< <<Lit(<<107>>), Text(<<118>>)>> >>),
      JObj(<< <<Lit(<<97>>), JNum(7)>>, <<Lit(<<98>>), Text(<<111, 107>>)>> >>) }

\* values whose serialization lies around the outgoing cap: a string of n
\* bytes serializes to n + 2 bytes
BigValues ==
    { Blob(MAX_TO_BROWSER - 3), Blob(MAX_TO_BROWSER - 2), Blob(MAX_TO_BROWSER - 1),
      Blob(1200000 - 2), JObj(<< <<Lit(<<98>>), Blob(1200000)>> >>),
      JArr(<<Blob(MAX_TO_BROWSER), JBad>>) }

BadValues == { JBad, JArr(<<JNum(7), JBad>>), JObj(<< <<Lit(<<107>>), JBad>> >>) }

Values == SmallValues \cup BigValues \cup BadValues

\* the max_size arguments of the decode functions
MaxSizes ==
    { Usize(0), Usize(8), Usize(1024), Usize(MAX_FROM_BROWSER), usize_MAX }

\* a length prefix declaring the u32 with digits d, followed by body
Framed(d, body) == Cat(Lit(to_ne_bytes(d)), body)

FrameOf(body) == Framed(U32(BLen(body)), body)

\* well-formed frames
GoodFrames ==
    { FrameOf(<<>>), FrameOf(Lit(<<123, 125>>)), FrameOf(Lit(<<34, 195, 169, 34>>)) }

\* what a stream of Init can begin with
FirstPieces ==
    GoodFrames
    \cup { FrameOf(Rep(97, 8)), FrameOf(Rep(97, 9)), FrameOf(Rep(97, 1024)),
           FrameOf(Rep(97, 1025)),
           FrameOf(Rep(97, MAX_FROM_BROWSER)), FrameOf(Rep(97, MAX_FROM_BROWSER + 1)),
           FrameOf(Lit(<<255, 254, 253>>)), FrameOf(Lit(<<97, 195>>)),
           FrameOf(Ser(JObj(<< <<Lit(<<97>>), JNum(7)>>, <<Lit(<<98>>), Text(<<111, 107>>)>> >>))),
           FrameOf(Ser(JObj(<< <<Lit(<<97>>), Text(<<110>>)>>, <<Lit(<<98>>), JNum(123)>> >>))),
           FrameOf(Lit(<<123, 34, 97, 34, 58>>)),
           FrameOf(Cat(Rep(97, 1024), Lit(<<255>>))),
           Framed(U32(10), Lit(<<1, 2, 3>>)), Framed(U32(3), <<>>),
           Framed(U32(1024), <<>>), Framed(U32(MAX_FROM_BROWSER), Rep(97, 5)),
           Framed(U32(MAX_FROM_BROWSER + 1), <<>>),
           Framed(<<0, 0, 0, 128>>, Rep(97, 5)), Framed(<<128, 0, 0, 0>>, Rep(97, 5)),
           Framed(<<255, 255, 255, 255>>, <<>>) }

\* a truncated length prefix: 0 to 3 bytes
Tails == { <<>>, Lit(<<0>>), Lit(<<3, 0>>), Lit(<<97, 97, 97>>) }

RECURSIVE GoodRuns(_)
GoodRuns(n) ==
    IF n = 0 THEN { <<>> }
    ELSE GoodRuns(n - 1) \cup { Cat(f, g) : f \in GoodFrames, g \in GoodRuns(n - 1) }

Streams ==
    { Cat(g, t) : g \in GoodRuns(MaxFrames), t \in Tails }
    \cup { Cat(p, Cat(g, t)) : p \in FirstPieces \ GoodFrames, g \in GoodRuns(1),
                                t \in { <<>>, Lit(<<3, 0>>) } }

\* streams that fail with an I/O error at an offset inside or at the end of
\* their data
FaultyReaders ==
    { FaultyReader(Cat(p, t), at) :
        p \in { <<>>, FrameOf(Lit(<<123, 125>>)), Framed(U32(1024), <<>>) },
        t \in { <<>>, Lit(<<3, 0>>) },
        at \in {0, 2, 4, 5, 6, 8} }

Readers == { Cursor(b) : b \in Streams } \cup { r \in FaultyReaders : \A f \in r.fault : f <= BLen(r.data) }

(***************************************************************************)
(* The codec on its inputs.  A behaviour either encodes a value, wraps the *)
(* frame in a cursor and decodes from it, or decodes from a given stream.  *)
(***************************************************************************)
\* the installer is not used: no directory, no file, no registry key
NoDisk == [dirs |-> {}, files |-> <<>>, locked |-> {}, reg |-> <<>>]

\* spawn_reader has not been called a second time, and no blocking tasks
\* decode side by side
NoOthers == [reader2 |-> [pc |-> "unborn"], rx2 |-> <<>>, tasks |-> <<>>]

\* no event_loop has been called
NoPump ==
    /\ stdin = [data |-> <<>>, pos |-> 0, fault |-> {}, open |-> TRUE, todo |-> <<>>,
                wrote |-> <<>>]
    /\ rtask = [pc |-> "unborn"]
    /\ inq = <<>>
    /\ loop = [pc |-> "uncalled"]
    /\ running = {}
    /\ handler = [reply |-> "none"]
    /\ subtasks = {}
    /\ received = <<>>
    /\ dispatched = <<>>
    /\ outcomes = <<>>
    /\ accepted = <<>>
    /\ users = [stdin |-> {}, stdout |-> {}]
    /\ others = NoOthers
    /\ disk = NoDisk

Init ==
    /\ endian \in {"little", "big"}
    /\ \/ value \in Values /\ reader = Cursor(<<>>)
       \/ value = NoValue /\ reader \in Readers
    /\ frame = NoResult
    /\ w = Writer(Unlimited, FALSE)
    /\ outq = <<>>
    /\ wtask = "running"
    /\ stdout = Writer(Unlimited, FALSE)
    /\ ncalls = 0
    /\ call = NoCall
    /\ ret = NoResult
    /\ results = <<>>
    /\ NoPump

send_vars == <<w, outq, wtask, stdout>>

rest_vars == <<results, pump_vars>>

\* let frame = encode_message(&message)
Encode ==
    /\ value # NoValue
    /\ call.op = "start"
    /\ frame' = encode_message(value)
    /\ call' = [op |-> "encode_message"]
    /\ ret' = frame'
    /\ ncalls' = ncalls + 1
    /\ UNCHANGED <<endian, value, reader, send_vars, rest_vars>>

\* let mut cur = Cursor::new(frame)
CursorNew ==
    /\ call.op = "encode_message"
    /\ frame.ok
    /\ reader' = Cursor(frame.val)
    /\ call' = [op |-> "Cursor::new"]
    /\ ret' = NoResult
    /\ UNCHANGED <<endian, value, frame, ncalls, send_vars, rest_vars>>

Called(op, max_size, d) ==
    /\ ncalls < MaxCalls
    /\ ncalls' = ncalls + 1
    /\ reader' = d.reader
    /\ ret' = d.ret
    /\ call' = [op |-> op, max_size |-> max_size, before |-> reader, alloc |-> d.alloc]
    /\ UNCHANGED <<endian, value, frame, send_vars, rest_vars>>

DecodeOpt == \E max_size \in MaxSizes :
    Called("decode_message_opt", max_size, decode_message_opt(reader, max_size))

Decode == \E max_size \in MaxSizes :
    Called("decode_message", max_size, decode_message(reader, max_size))

RecvJson == \E max_size \in MaxSizes, ty \in Types :
    LET d == recv_json(reader, max_size, ty)
    IN  /\ ncalls < MaxCalls
        /\ ncalls' = ncalls + 1
        /\ reader' = d.reader
        /\ ret' = d.ret
        /\ call' = [op |-> "recv_json", max_size |-> max_size, before |-> reader,
                    alloc |-> d.alloc, ty |-> ty]
        /\ UNCHANGED <<endian, value, frame, send_vars, rest_vars>>

Next == Encode \/ CursorNew \/ DecodeOpt \/ Decode \/ RecvJson

Spec == Init /\ [][Next]_vars

(***************************************************************************)
(* The send paths: send_frame / send_json on a blocking writer, the        *)
(* writer task and Sender::send on the writer queue, and send_message on   *)
(* standard output.                                                        *)
(***************************************************************************)
\* tokio::sync::mpsc::channel::<Vec<u8>>(32) in spawn_writer
WriterQueueCap == 32

\* writer.write_all(frame).map_err(Io)?; writer.flush().map_err(Io)?; Ok(())
\* the flush attempted whether or not the write succeeded
send_frame_always_flush(wr, bytes) ==
    LET a == write_all(wr, bytes)
        f == flush(a.writer)
    IN  IF a.res # "ok" THEN [ret |-> Err(Io(a.res)), writer |-> f.writer]
        ELSE IF f.res # "ok" THEN [ret |-> Err(Io(f.res)), writer |-> f.writer]
        ELSE [ret |-> Ok(Unit), writer |-> f.writer]

\* writer.write_all(frame).map_err(Io)?; writer.flush().map_err(Io)?; Ok(())
send_frame(wr, bytes) ==
    (CHOOSE y_ \in {
        IF a.res # "ok" THEN [ret |-> Err(Io(a.res)), writer |-> a.writer]
        ELSE (CHOOSE y_ \in {
                 IF f.res # "ok" THEN [ret |-> Err(Io(f.res)), writer |-> f.writer]
                 ELSE [ret |-> Ok(Unit), writer |-> f.writer]
             : f \in {flush(a.writer)}} : TRUE)
    : a \in {write_all(wr, bytes)}} : TRUE)

\* the frame written without the outgoing cap being checked first
send_json_unchecked(wr, msg) ==
    LET json == to_vec(msg)
    IN  IF ~json.ok THEN [ret |-> Err(json.err), writer |-> wr]
        ELSE LET r == send_frame(wr, Cat(Lit(to_ne_bytes(U32(BLen(json.val)))), json.val))
             IN  IF BLen(json.val) > MAX_TO_BROWSER
                 THEN [ret |-> Err(OutgoingTooLarge(BLen(json.val), MAX_TO_BROWSER)),
                       writer |-> r.writer]
                 ELSE r

\* let frame = encode_message(msg)?; send_frame(writer, &frame)
send_json(wr, msg) ==
    LET f == encode_message(msg)
    IN  IF ~f.ok THEN [ret |-> f, writer |-> wr] ELSE send_frame(wr, f.val)

\* a receiver that wakes only when every sender is gone
recv_ready_at_close(q, closed) == closed

\* rx.recv() and rx.blocking_recv() complete when an item is queued, or when
\* the channel is empty and every sender is dropped
recv_ready(q, closed) == q # <<>> \/ closed

\* a send that waits for room and never learns that the writer task has ended
SenderSendReady_while_running(q, task, msg) ==
    \/ task = "running" /\ Len(q) < WriterQueueCap
    \/ ~encode_message(msg).ok

\* Sender::send once it completes: the frame is placed on the queue, or the
\* queue's receiving end is gone.  While the queue is full and the writer task
\* runs, the send stays suspended.
SenderSendReady(q, task, msg) ==
    \/ task = "ended"
    \/ Len(q) < WriterQueueCap
    \/ ~encode_message(msg).ok

\* a send that takes the frame although nobody is left to write it
Sender_send_into_void(q, task, msg) ==
    (CHOOSE y_ \in {
        IF ~f.ok THEN [ret |-> f, queue |-> q]
        ELSE [ret |-> Ok(Unit), queue |-> IF task = "ended" THEN q ELSE Append(q, f.val)]
    : f \in {encode_message(msg)}} : TRUE)

Sender_send(q, task, msg) ==
    (CHOOSE y_ \in {
        IF ~f.ok THEN [ret |-> f, queue |-> q]
        ELSE IF task = "ended" THEN [ret |-> Err(Disconnected), queue |-> q]
        ELSE [ret |-> Ok(Unit), queue |-> Append(q, f.val)]
    : f \in {encode_message(msg)}} : TRUE)

\* send_message: encode, then send_frame on standard output from a blocking task
send_message(out, msg) ==
    LET f == encode_message(msg)
    IN  IF ~f.ok THEN [ret |-> f, writer |-> out] ELSE send_frame(out, f.val)

\* a writer task that keeps the frame and tries again
after_failed_write_retry(out, q) == [stdout |-> out, queue |-> q, task |-> "running"]

\* if stdout.write_all(&frame).is_err() { break; } and the same for flush: the
\* task ends, and with it the receiver and the frames it holds
after_failed_write(out, q) == [stdout |-> out, queue |-> <<>>, task |-> "ended"]

\* a writer task that takes the newest frame of the queue first
writer_turn_newest_first(out, q) ==
    LET r == send_frame(out, q[Len(q)])
    IN  IF r.ret.ok
        THEN [stdout |-> r.writer, queue |-> SubSeq(q, 1, Len(q) - 1), task |-> "running"]
        ELSE [stdout |-> r.writer, queue |-> <<>>, task |-> "ended"]

\* one turn of the writer task's loop on the frame at the head of the queue:
\* write_all, then flush; either failing ends the task, which drops the
\* receiving end and the frames still queued
writer_turn(out, q) ==
    (CHOOSE y_ \in {
        IF r.ret.ok
        THEN [stdout |-> r.writer, queue |-> Tail(q), task |-> "running"]
        ELSE after_failed_write(r.writer, q)
    : r \in {send_frame(out, Head(q))}} : TRUE)

SendValues ==
    { JNull, JObj(<< <<Lit(<<107>>), Text(<<118>>)>> >>), Blob(MAX_TO_BROWSER - 2),
      Blob(MAX_TO_BROWSER - 1), JBad }

WriterModes ==
    { [Writer(room, ff) EXCEPT !.buf = pre] :
        room \in {Unlimited, {0}, {6}}, ff \in BOOLEAN, pre \in {<<>>} }

InitSend ==
    /\ endian \in {"little", "big"}
    /\ value = NoValue
    /\ frame = NoResult
    /\ reader = Cursor(<<>>)
    /\ \/ w \in WriterModes /\ stdout = Writer(Unlimited, FALSE)
       \/ w = Writer(Unlimited, FALSE) /\ stdout \in WriterModes
    /\ outq = <<>>
    /\ wtask = "running"
    /\ ncalls = 0
    /\ call = NoCall
    /\ ret = NoResult
    /\ results = <<>>
    /\ NoPump

codec_vars == <<endian, value, frame, reader>>

Sent(op, msg) ==
    /\ ncalls < MaxCalls
    /\ ncalls' = ncalls + 1
    /\ call' = [op |-> op, msg |-> msg]
    /\ UNCHANGED <<codec_vars, rest_vars>>

\* byte strings handed to send_frame: frames and bytes that are no frame
FrameInputs ==
    { <<>>, Lit(<<1, 2, 3>>), encode_message(JNull).val,
      encode_message(Blob(MAX_TO_BROWSER - 2)).val }

SendFrame == \E bytes \in FrameInputs :
    LET r == send_frame(w, bytes)
    IN  /\ ncalls < MaxCalls
        /\ ncalls' = ncalls + 1
        /\ call' = [op |-> "send_frame", bytes |-> bytes, before |-> w]
        /\ w' = r.writer
        /\ ret' = r.ret
        /\ UNCHANGED <<codec_vars, outq, wtask, stdout, rest_vars>>

SendJson == \E m \in SendValues :
    LET r == send_json(w, m)
    IN  /\ Sent("send_json", m)
        /\ w' = r.writer
        /\ ret' = r.ret
        /\ UNCHANGED <<outq, wtask, stdout>>

SenderSend == \E m \in SendValues :
    LET r == Sender_send(outq, wtask, m)
    IN  /\ SenderSendReady(outq, wtask, m)
        /\ Sent("Sender::send", m)
        /\ outq' = r.queue
        /\ ret' = r.ret
        /\ UNCHANGED <<w, wtask, stdout>>

\* send_message(&msg).await: its blocking task, spawned once the message is
\* encoded, writes the frame to standard output itself
SendMessageOf(msgs, most) == \E m \in msgs :
    LET r == send_message(stdout, m)
    IN  /\ ncalls < most
        /\ ncalls' = ncalls + 1
        /\ call' = [op |-> "send_message", msg |-> m]
        /\ stdout' = r.writer
        /\ ret' = r.ret
        /\ users' = IF encode_message(m).ok
                    THEN [users EXCEPT !.stdout = @ \cup {"send_message task"}]
                    ELSE users
        /\ UNCHANGED <<codec_vars, w, outq, wtask, results, stdin, rtask, inq, loop, running,
                       handler, subtasks, received, dispatched, outcomes, accepted, others,
                   disk>>

SendMessage == SendMessageOf(SendValues, MaxCalls)

\* while let Some(frame) = rx.blocking_recv() { write_all; flush }
WriterTurn ==
    /\ wtask = "running"
    /\ outq # <<>>
    /\ LET t == writer_turn(stdout, outq)
       IN  /\ stdout' = t.stdout
           /\ outq' = t.queue
           /\ wtask' = t.task
    /\ UNCHANGED <<codec_vars, w, ncalls, call, ret, rest_vars>>

NextSend == SendFrame \/ SendJson \/ SenderSend \/ SendMessage \/ WriterTurn

SpecSend == InitSend /\ [][NextSend]_vars

(***************************************************************************)
(* Properties of the codec (checked under Spec)                            *)
(***************************************************************************)
IsDecode == call.op \in {"decode_message_opt", "decode_message"}

\* the four bytes at the reader's position can be read
PrefixReadable(r) == Remaining(r) >= 4 /\ \A f \in r.fault : f >= r.pos + 4

\* the length those four bytes declare, as a usize
DeclaredLen(r) == AsUsize(from_ne_bytes(Explode(Slice(r.data, r.pos, 4))))

\* the bytes after the prefix, up to the end of the stream
BodyAvailable(r) == Remaining(r) - 4

\* min(max_size, 67,108,864)
NarrowedCap(max_size) ==
    IF WideGt(max_size, Usize(67108864)) THEN Usize(67108864) ELSE max_size

WithinOutgoingCap(v) == Serializable(v) /\ BLen(Ser(v)) <= 1048576

\* C1 (round-trip): a value whose compact serialization is at most 1,048,576
\* bytes is encoded, and decode_message with max_size = MAX_FROM_BROWSER on a
\* cursor over the frame returns a string that parses to a value equal to it.
C1_RoundTrip ==
    /\ (frame # NoResult /\ WithinOutgoingCap(value)) => frame.ok
    /\ ( /\ call.op = "decode_message"
         /\ frame.ok
         /\ call.before = Cursor(frame.val)
         /\ call.max_size = Usize(MAX_FROM_BROWSER) )
       => /\ ret.ok
          /\ from_str(ret.val) = Ok(value)

C1_Witness ==
    /\ call.op = "decode_message"
    /\ value = JObj(<< <<Lit(<<97>>), JNum(7)>>, <<Lit(<<98>>), Text(<<111, 107>>)>> >>)
    /\ frame.ok
    /\ call.before = Cursor(frame.val)
    /\ call.max_size = Usize(MAX_FROM_BROWSER)
    /\ ret.ok
    /\ from_str(ret.val) = Ok(value)

\* C2 (length prefix): a frame returned by encode_message is four bytes that
\* read back, as a native-order u32, as N = len(frame) - 4, followed by
\* exactly the N bytes of the value's serialization.
C2_LengthPrefix ==
    frame.ok =>
        /\ BLen(frame.val) >= 4
        /\ AsUsize(from_ne_bytes(Explode(BTake(frame.val, 4)))) = Usize(BLen(frame.val) - 4)
        /\ BDrop(frame.val, 4) = Ser(value)

C2_Witness ==
    /\ frame.ok
    /\ value = Text(<<97, 34, 34, 92, 97>>)
    /\ BLen(frame.val) = 4 + 10

\* C3 (outgoing cap): encode_message fails with OutgoingTooLarge exactly when
\* the serialization is longer than 1,048,576 bytes, and then reports that
\* length and max = 1,048,576; a serialization of exactly 1,048,576 bytes is
\* accepted.
C3_OutgoingCap ==
    frame # NoResult =>
        /\ (~frame.ok /\ frame.err.kind = "OutgoingTooLarge")
             <=> (Serializable(value) /\ BLen(Ser(value)) > 1048576)
        /\ (~frame.ok /\ frame.err.kind = "OutgoingTooLarge")
             => frame.err = OutgoingTooLarge(BLen(Ser(value)), 1048576)
        /\ (Serializable(value) /\ BLen(Ser(value)) = 1048576) => frame.ok

C3_Witness ==
    /\ frame.ok
    /\ BLen(Ser(value)) = 1048576
    /\ BLen(frame.val) = 1048580

\* C5 (clean EOF): decode_message_opt returns Ok(None) whenever the stream
\* ends with 0, 1, 2 or 3 bytes left where a length prefix is expected.
C5_CleanEof ==
    ( /\ call.op = "decode_message_opt"
      /\ call.before.fault = NoFault
      /\ Remaining(call.before) \in 0..3 )
    => ret = Ok(None)

C5_Witness ==
    /\ call.op = "decode_message_opt"
    /\ call.before.fault = NoFault
    /\ call.before.pos > 0
    /\ Remaining(call.before) = 3
    /\ ret = Ok(None)

\* C6 (truncated body): when the prefix is read, the declared length is
\* within the effective cap and the stream ends before that many body bytes,
\* the decode functions fail with Io(UnexpectedEof).
C6_TruncatedBody ==
    ( /\ IsDecode
      /\ call.before.fault = NoFault
      /\ Remaining(call.before) >= 4
      /\ ~WideGt(DeclaredLen(call.before), NarrowedCap(call.max_size))
      /\ BodyAvailable(call.before) < ToInt(DeclaredLen(call.before)) )
    => ret = Err(Io("UnexpectedEof"))

C6_Witness ==
    /\ call.op = "decode_message_opt"
    /\ call.before.fault = NoFault
    /\ Remaining(call.before) = 4 + 3
    /\ DeclaredLen(call.before) = Usize(10)
    /\ ret = Err(Io("UnexpectedEof"))

\* C7 (cap narrowing): once the prefix is read, the frame is rejected with
\* IncomingTooLarge{len = L, max = min(max_size, 67,108,864)} exactly when L
\* exceeds that minimum, and no max_size lets a message longer than
\* 67,108,864 bytes be returned.
C7_CapNarrowing ==
    /\ (IsDecode /\ PrefixReadable(call.before)) =>
          LET L == DeclaredLen(call.before)
              m == NarrowedCap(call.max_size)
          IN  /\ (~ret.ok /\ ret.err.kind = "IncomingTooLarge") <=> WideGt(L, m)
              /\ WideGt(L, m) => ret = Err(IncomingTooLarge(L, m))
    /\ (call.op = "decode_message" /\ ret.ok) => BLen(ret.val) <= 67108864
    /\ (call.op = "decode_message_opt" /\ ret.ok /\ ret.val.some) => BLen(ret.val.v) <= 67108864

C7_Witness ==
    /\ IsDecode
    /\ PrefixReadable(call.before)
    /\ call.max_size = usize_MAX
    /\ DeclaredLen(call.before) = Usize(67108865)
    /\ BodyAvailable(call.before) >= 67108865
    /\ ret = Err(IncomingTooLarge(Usize(67108865), Usize(67108864)))

\* C8 (rejection before the body): when decode_message_opt returns
\* IncomingTooLarge, the reader has advanced by exactly the four prefix bytes
\* and no body buffer was allocated, whether or not a body is on the stream.
C8_NoBodyRead ==
    (call.op = "decode_message_opt" /\ ~ret.ok /\ ret.err.kind = "IncomingTooLarge")
    => /\ reader = [call.before EXCEPT !.pos = call.before.pos + 4]
       /\ call.alloc = 0

C8_Witness ==
    /\ call.op = "decode_message_opt"
    /\ ~ret.ok
    /\ ret.err.kind = "IncomingTooLarge"
    /\ BodyAvailable(call.before) >= 1024
    /\ reader.pos = call.before.pos + 4

\* C9 (invalid UTF-8): for a complete frame within the effective cap whose
\* body is not valid UTF-8, decode_message_opt returns IncomingNotUtf8 and the
\* reader has advanced by exactly 4 + L bytes.
C9_NotUtf8Consumed ==
    ( /\ call.op = "decode_message_opt"
      /\ call.before.fault = NoFault
      /\ Remaining(call.before) >= 4
      /\ ~WideGt(DeclaredLen(call.before), NarrowedCap(call.max_size))
      /\ BodyAvailable(call.before) >= ToInt(DeclaredLen(call.before))
      /\ ~Utf8Ok(Slice(call.before.data, call.before.pos + 4,
                       ToInt(DeclaredLen(call.before))), 0, 128, 191) )
    => /\ ret = Err(IncomingNotUtf8)
       /\ reader = [call.before EXCEPT
                      !.pos = call.before.pos + 4 + ToInt(DeclaredLen(call.before))]

\* the rejected frame is followed by a well-formed one, which the next call
\* would return
C9_Witness ==
    /\ call.op = "decode_message_opt"
    /\ ret = Err(IncomingNotUtf8)
    /\ DeclaredLen(call.before) = Usize(3)
    /\ reader.pos = call.before.pos + 7
    /\ decode_message_opt(reader, usize_MAX).ret = Ok(Some(Lit(<<123, 125>>)))

\* C10 (decode_message refines decode_message_opt): on the same reader and
\* max_size, decode_message returns Disconnected exactly when
\* decode_message_opt returns Ok(None), Ok(s) exactly when it returns
\* Ok(Some(s)), the same error otherwise, and leaves the same reader.
C10_DecodeRefinesOpt ==
    call.op = "decode_message" =>
        LET o == decode_message_opt(call.before, call.max_size)
        IN  /\ (ret = Err(Disconnected)) <=> (o.ret.ok /\ ~o.ret.val.some)
            /\ ret.ok <=> (o.ret.ok /\ o.ret.val.some)
            /\ ret.ok => ret.val = o.ret.val.v
            /\ ~o.ret.ok => ret = o.ret
            /\ reader = o.reader

C10_Witness ==
    /\ call.op = "decode_message"
    /\ ret = Err(Disconnected)
    /\ Remaining(call.before) = 2
    /\ decode_message_opt(call.before, call.max_size).ret = Ok(None)

\* a whole frame within the effective cap can be read at the reader's position
FrameReadable(r, max_size) ==
    /\ PrefixReadable(r)
    /\ ~WideGt(DeclaredLen(r), NarrowedCap(max_size))
    /\ BodyAvailable(r) >= ToInt(DeclaredLen(r))
    /\ \A f \in r.fault : f >= r.pos + 4 + ToInt(DeclaredLen(r))

BodyAt(r) == Slice(r.data, r.pos + 4, ToInt(DeclaredLen(r)))

\* C11 (recv_json keeps framing errors apart): recv_json returns
\* DeserializeJson only when a whole frame within the cap with a valid UTF-8
\* body was read and its text does not parse into the requested type; every
\* framing outcome of decode_message (Disconnected, IncomingTooLarge,
\* IncomingNotUtf8, Io) is returned unchanged.
C11_RecvJsonErrors ==
    call.op = "recv_json" =>
        LET d == decode_message(call.before, call.max_size)
            decoded == /\ FrameReadable(call.before, call.max_size)
                       /\ Utf8Ok(BodyAt(call.before), 0, 128, 191)
        IN  /\ (~ret.ok /\ ret.err.kind = "DeserializeJson")
                 <=> (decoded /\ ~from_str_as(call.ty, BodyAt(call.before)).ok)
            /\ decoded <=> d.ret.ok
            /\ ~d.ret.ok => (ret = d.ret /\ ret.err.kind # "DeserializeJson")
            /\ ret.ok => (decoded /\ ret = from_str_as(call.ty, BodyAt(call.before)))
            /\ reader = d.reader

\* the text is valid JSON of the wrong shape for the requested struct
C11_Witness ==
    /\ call.op = "recv_json"
    /\ call.ty = "MyMsg"
    /\ FrameReadable(call.before, call.max_size)
    /\ from_str(BodyAt(call.before)).ok
    /\ BLen(BodyAt(call.before)) > 2
    /\ ret = Err(DeserializeJson)

(***************************************************************************)
(* The pump and the event loop: the reader task of spawn_reader, the writer *)
(* task of spawn_writer, and event_loop dispatching to the user's handler.  *)
(***************************************************************************)
ReaderQueueCap == 32

\* the longest stream of a run: enough frames to fill the reader queue while
\* one message is being handled and one more is held by the reader task
LongStream == 34

\* the longest of the other streams
ShortStream == 2

\* the most handler invocations that hand a Sender clone to a sub-task
MaxSubtasks == 2

\* what the browser writes to the pipe in one piece: bytes, or bytes up to a
\* point where the stream fails
Chunk(bytes, fault) == [bytes |-> bytes, fault |-> fault]

\* standard input: the unread bytes in the pipe (data from pos on), whether the
\* browser still holds its end open, the chunks it has yet to write and those
\* it has written
Stdin(chunks, open) ==
    [data |-> <<>>, pos |-> 0, fault |-> {}, open |-> open, todo |-> chunks, wrote |-> <<>>]

\* the pipe as a blocking read finds it: once empty, it holds the next chunk
\* the browser writes
Refill(r) ==
    IF Remaining(r) = 0 /\ r.todo # <<>>
    THEN [r EXCEPT !.data = Head(r.todo).bytes, !.pos = 0, !.fault = Head(r.todo).fault,
                   !.todo = Tail(r.todo), !.wrote = Append(r.wrote, Head(r.todo))]
    ELSE r

\* the read reached the end of the bytes the browser has written so far
AtEnd(d) ==
    /\ d.reader.pos = BLen(d.reader.data)
    /\ \/ d.ret.ok /\ ~d.ret.val.some
       \/ ~d.ret.ok /\ d.ret.err = Io("UnexpectedEof")

\* a blocking read of an open stream waits for the browser to write or to close
Blocks(r) ==
    r.open /\ \E d \in {decode_message_opt(Refill(r), Usize(MAX_FROM_BROWSER))} : AtEnd(d)

\* a clean end-of-stream sent on as an empty message
reader_item_eof_as_message(res) ==
    IF ~res.ok THEN res
    ELSE IF res.val.some THEN Ok(res.val.v)
    ELSE Ok(<<>>)

\* the item the reader task sends for what decode_message_opt returned:
\* Ok(Some(msg)) => Ok(msg), Ok(None) => Err(Disconnected), Err(e) => Err(e)
reader_item(res) ==
    IF ~res.ok THEN res
    ELSE IF res.val.some THEN Ok(res.val.v)
    ELSE Err(Disconnected)

\* a channel without a bound
blocking_send_ready_unbounded(q, rx_dropped) == TRUE

\* tx.blocking_send returns: the receiver is gone, or the channel has room
blocking_send_ready(q, rx_dropped) == rx_dropped \/ Len(q) < ReaderQueueCap

Recv == [pc |-> "recv", n |-> 0, ret |-> NoResult, dropped |-> 0]

Handling(n) == [pc |-> "handling", n |-> n, ret |-> NoResult, dropped |-> 0]

\* event_loop returned: its receiver is dropped with the items still queued
Returned(result, q) == [pc |-> "returned", n |-> 0, ret |-> result, dropped |-> Len(q)]

\* the handler's future spawned instead of awaited
after_dispatch_detached(n) == Recv

\* handler(msg, sender.clone()).await
after_dispatch(n) == Handling(n)

\* the sentinel returned to the caller like any other error
on_reader_error_strict(e) == Err(e)

\* Err(NmError::Disconnected) => return Ok(()), Err(e) => return Err(e)
on_reader_error(e) == IF e = Disconnected THEN Ok(Unit) ELSE Err(e)

\* a handler's error logged and the loop carried on
after_handler_lenient(result, q) == Recv

\* the ? after the handler's await: an error returns from event_loop
after_handler(result, q) == IF result.ok THEN Recv ELSE Returned(result, q)

\* what the handlers of a run do: reply to each message (not at all, with the
\* message, with a value over the outgoing cap, or with a burst of numbers;
\* the busy handler sends its burst for the first message only),
\* pass on or ignore the error of a failed reply, fail on some messages, and
\* hand a Sender clone to a sub-task for the first spawn messages
Handlers ==
    [reply : {"none", "echo", "big", "burst"}, on_error : {"ignore", "propagate"},
     fails_at : {{}, {2}}, spawn : {0, MaxSubtasks}]

\* the replies of a burst: enough to fill the writer queue while one frame is
\* being written and one more send waits
Burst == 34

Replies(h) ==
    IF handler.reply = "none" THEN 0
    ELSE IF handler.reply = "burst" THEN Burst
    ELSE IF handler.reply = "burst once" THEN (IF h.n = 1 THEN Burst ELSE 0)
    ELSE 1

ReplyValue(h) ==
    IF handler.reply = "big" THEN Blob(MAX_TO_BROWSER - 1)
    ELSE IF handler.reply \in {"burst", "burst once"} THEN JNum(h.sent + 1)
    ELSE JStr(h.msg)

SubtaskValue(n) == JNum(n)

\* every Sender is dropped: event_loop's own, the handlers' and the sub-tasks'
NoSenders == loop.pc = "returned" /\ running = {} /\ subtasks = {}

\* the frames the browser writes: message i is the JSON number i
PumpFrame(i) == FrameOf(Digits(i))

Frames(k) == [i \in 1..k |-> Chunk(PumpFrame(i), {})]

\* k messages, then: nothing yet, a clean end, a truncated prefix, a body that
\* is not UTF-8 with a message behind it, an oversize frame, a truncated body,
\* or an I/O error
Stdins(k) ==
    LET g == Frames(k)
    IN  { Stdin(g, TRUE), Stdin(g, FALSE),
          Stdin(Append(g, Chunk(Lit(<<3, 0>>), {})), FALSE),
          Stdin(Append(g, Chunk(Cat(FrameOf(Lit(<<255, 254, 253>>)), PumpFrame(k + 1)), {})),
                FALSE),
          Stdin(Append(g, Chunk(Framed(U32(MAX_FROM_BROWSER + 1), <<>>), {})), TRUE),
          Stdin(Append(g, Chunk(Framed(U32(10), Lit(<<1, 2, 3>>)), {})), FALSE),
          Stdin(Append(g, Chunk(<<>>, {0})), TRUE) }

\* stdout takes everything, breaks after 10 bytes, or fails to flush
PumpStdouts == { Writer(Unlimited, FALSE), Writer({10}, FALSE), Writer(Unlimited, TRUE) }

\* the handlers run against the short streams, against the long stream, and
\* the ones that reply with a burst
ShortHandlers ==
    { h \in Handlers : /\ h.reply # "burst"
                       /\ h.spawn = 0 \/ (h.reply = "echo" /\ h.fails_at = {}) }

LongHandlers ==
    { h \in Handlers : h.reply = "none" /\ h.on_error = "ignore" /\ h.fails_at = {}
                       /\ h.spawn = 0 }

BurstHandlers == { h \in Handlers : h.reply = "burst" /\ h.fails_at = {} /\ h.spawn = 0 }

InitPump ==
    /\ endian \in {"little", "big"}
    /\ value = NoValue
    /\ frame = NoResult
    /\ reader = Cursor(<<>>)
    /\ w = Writer(Unlimited, FALSE)
    /\ outq = <<>>
    /\ wtask = "running"
    /\ ncalls = 0
    /\ call = NoCall
    /\ ret = NoResult
    /\ results = <<>>
    /\ \/ /\ \E k \in 0..ShortStream : stdin \in Stdins(k)
          /\ handler \in ShortHandlers
          /\ stdout \in PumpStdouts
       \/ /\ stdin \in {Stdin(Frames(LongStream), FALSE), Stdin(Frames(LongStream), TRUE)}
          /\ handler \in LongHandlers
          /\ stdout = Writer(Unlimited, FALSE)
       \/ /\ stdin = Stdin(Frames(1), FALSE)
          /\ handler \in BurstHandlers
          /\ stdout \in PumpStdouts
    /\ rtask = [pc |-> "decoding"]
    /\ inq = <<>>
    /\ loop = Recv
    /\ running = {}
    /\ subtasks = {}
    /\ received = <<>>
    /\ dispatched = <<>>
    /\ outcomes = <<>>
    /\ accepted = <<>>
    /\ users = [stdin |-> {}, stdout |-> {}]
    /\ others = NoOthers
    /\ disk = NoDisk

idle_vars == <<codec_vars, w, ncalls, call, ret, results, handler, others, disk>>

\* the browser closes its end of the pipe
CloseStdin ==
    /\ stdin.open
    /\ stdin' = [stdin EXCEPT !.open = FALSE]
    /\ UNCHANGED <<idle_vars, send_vars, rtask, inq, loop, running, subtasks, received,
                   dispatched, outcomes, accepted, users>>

\* spawn_reader's loop: match decode_message_opt(&mut stdin, max_size)
ReaderDecode ==
    /\ rtask.pc = "decoding"
    /\ UNCHANGED <<idle_vars, send_vars, inq, loop, running, subtasks, received,
                   dispatched, outcomes, accepted>>
    /\ users' = [users EXCEPT !.stdin = @ \cup {"reader task"}]
    /\ ~Blocks(stdin)
    /\ \E d \in {decode_message_opt(Refill(stdin), Usize(MAX_FROM_BROWSER))} :
          /\ stdin' = d.reader
          /\ \E item \in {reader_item(d.ret)} : rtask' = [pc |-> "sending", item |-> item]

\* a reader task that goes on to the next frame after an error
after_blocking_send_resync(item) == [pc |-> "decoding"]

\* the reader task once its item is sent: the next turn of the loop after a
\* message, break after Err(Disconnected) or another error
after_blocking_send(item) == IF item.ok THEN [pc |-> "decoding"] ELSE [pc |-> "ended"]

\* a reader task that goes back to reading after a push that failed
after_send_error_retry(item) == [pc |-> "decoding"]

\* tx.blocking_send(..).is_err(), the receiver dropped: break
after_send_error(item) == [pc |-> "ended"]

\* tx.blocking_send(item): waits while the channel is full; after an error
\* item, or when the receiver is gone, the task breaks out of its loop
ReaderSend ==
    /\ rtask.pc = "sending"
    /\ blocking_send_ready(inq, loop.pc = "returned")
    /\ IF loop.pc = "returned"
       THEN inq' = inq /\ rtask' = after_send_error(rtask.item)
       ELSE /\ inq' = Append(inq, rtask.item)
            /\ rtask' = after_blocking_send(rtask.item)
    /\ UNCHANGED <<idle_vars, send_vars, stdin, loop, running, subtasks, received,
                   dispatched, outcomes, accepted, users>>

\* a channel that hands out the newest item first
rx_recv_newest(q) == [item |-> q[Len(q)], rest |-> SubSeq(q, 1, Len(q) - 1)]

\* rx.recv() on a channel that holds items: the oldest one, the others stay
rx_recv(q) == [item |-> Head(q), rest |-> Tail(q)]

\* while let Some(item) = rx.recv().await { match item { ... } }: an Ok item
\* starts the handler on a clone of the Sender, an error item returns; the
\* channel closed and empty ends the loop with Ok(())
LoopRecv ==
    /\ loop.pc = "recv"
    /\ recv_ready(inq, rtask.pc = "ended")
    /\ IF inq = <<>>
       THEN /\ loop' = Returned(Ok(Unit), inq)
            /\ UNCHANGED <<inq, received, dispatched, running, subtasks>>
       ELSE LET item == rx_recv(inq).item
                rest == rx_recv(inq).rest
                n == Len(dispatched) + 1
            IN  /\ received' = Append(received, item)
                /\ IF item.ok
                   THEN /\ inq' = rest
                        /\ dispatched' = Append(dispatched, item.val)
                        /\ running' = running \cup {[n |-> n, msg |-> item.val, sent |-> 0]}
                        /\ subtasks' = subtasks \cup (IF n <= handler.spawn THEN {n} ELSE {})
                        /\ loop' = after_dispatch(n)
                   ELSE /\ inq' = <<>>
                        /\ loop' = Returned(on_reader_error(item.err), rest)
                        /\ UNCHANGED <<dispatched, running, subtasks>>
    /\ UNCHANGED <<idle_vars, send_vars, stdin, rtask, outcomes, accepted, users>>

\* the future of invocation h completes with result: event_loop, awaiting it,
\* goes on to the next message or returns the error
Complete(h, result) ==
    /\ running' = running \ {h}
    /\ outcomes' = Append(outcomes, result)
    /\ IF loop.pc = "handling" /\ loop.n = h.n
       THEN /\ loop' = after_handler(result, inq)
            /\ inq' = IF loop'.pc = "returned" THEN <<>> ELSE inq
       ELSE UNCHANGED <<loop, inq>>

\* a handler awaits sender.send(&reply); a failed send is passed on with ? or
\* ignored
HandlerSend ==
    /\ UNCHANGED <<idle_vars, w, wtask, stdout, stdin, rtask, subtasks, received,
                   dispatched, users>>
    /\ \E h \in { g \in running : g.sent < Replies(g) } : \E v \in {ReplyValue(h)} :
       \E f \in {encode_message(v)} : \E r \in {Sender_send(outq, wtask, v)} :
          /\ SenderSendReady(outq, wtask, v)
          /\ outq' = r.queue
          /\ accepted' = IF r.ret.ok THEN Append(accepted, f.val) ELSE accepted
          /\ IF r.ret.ok \/ handler.on_error = "ignore"
             THEN /\ running' = (running \ {h}) \cup {[h EXCEPT !.sent = h.sent + 1]}
                  /\ UNCHANGED <<loop, inq, outcomes>>
             ELSE Complete(h, r.ret)

\* a handler returns: Ok(()), or an error of its own
HandlerReturn == \E h \in running :
    /\ h.sent = Replies(h)
    /\ Complete(h, IF h.n \in handler.fails_at THEN Err(DeserializeJson) ELSE Ok(Unit))
    /\ UNCHANGED <<idle_vars, send_vars, stdin, rtask, subtasks, received, dispatched,
                   accepted, users>>

\* a sub-task sends through its clone of the Sender and drops it
SubtaskSend ==
    /\ UNCHANGED <<idle_vars, w, wtask, stdout, stdin, rtask, inq, loop, running,
                   received, dispatched, outcomes, users>>
    /\ \E n \in subtasks : \E v \in {SubtaskValue(n)} :
       \E f \in {encode_message(v)} : \E r \in {Sender_send(outq, wtask, v)} :
          /\ SenderSendReady(outq, wtask, v)
          /\ outq' = r.queue
          /\ accepted' = IF r.ret.ok THEN Append(accepted, f.val) ELSE accepted
          /\ subtasks' = subtasks \ {n}

\* a receiver that reports the end of the channel as soon as every sender is
\* gone, whatever is still queued
blocking_recv_none_at_close(q, closed) ==
    IF closed \/ q = <<>> THEN None ELSE Some(Head(q))

\* rx.blocking_recv() once it returns: the oldest frame while there is one,
\* None when the channel is empty, which it then is for good
blocking_recv(q, closed) ==
    IF q # <<>> THEN Some(Head(q)) ELSE None

\* spawn_writer's loop: while let Some(frame) = rx.blocking_recv() { write_all;
\* flush }; the channel closed and empty ends the task
WriterTask ==
    /\ wtask = "running"
    /\ recv_ready(outq, NoSenders)
    /\ UNCHANGED <<idle_vars, w, stdin, rtask, inq, loop, running, subtasks, received,
                   dispatched, outcomes, accepted>>
    /\ IF ~blocking_recv(outq, NoSenders).some
       THEN wtask' = "ended" /\ UNCHANGED <<outq, stdout, users>>
       ELSE \E t \in {writer_turn(stdout, outq)} :
                /\ stdout' = t.stdout
                /\ outq' = t.queue
                /\ wtask' = t.task
                /\ users' = [users EXCEPT !.stdout = @ \cup {"writer task"}]

NextPump ==
    \/ CloseStdin
    \/ ReaderDecode
    \/ ReaderSend
    \/ LoopRecv
    \/ HandlerSend
    \/ HandlerReturn
    \/ SubtaskSend
    \/ WriterTask

SpecPump == InitPump /\ [][NextPump]_vars

\* The pump under the scheduling the runtime gives it: the reader and the
\* writer task run on threads of their own (spawn_blocking), event_loop is
\* polled whenever an item or a handler's completion wakes it, and the
\* futures of the handlers and of their sub-tasks are driven to completion.
\* Nothing makes the browser close its end of stdin.
FairHandlers ==
    { h \in ShortHandlers :
        /\ h.fails_at = {} \/ h.reply = "none"
        /\ h.spawn = 0 \/ h.on_error = "ignore" }

InitFair ==
    /\ InitPump
    /\ endian = "little"
    /\ Len(stdin.todo) <= ShortStream + 1
    /\ handler \in FairHandlers
    /\ handler.spawn # 0 => Len(stdin.todo) <= 1
    /\ ~stdout.fail_flush

FairPump ==
    /\ WF_vars(ReaderDecode)
    /\ WF_vars(ReaderSend)
    /\ WF_vars(LoopRecv)
    /\ WF_vars(HandlerSend)
    /\ WF_vars(HandlerReturn)
    /\ WF_vars(SubtaskSend)
    /\ WF_vars(WriterTask)

SpecPumpFair == InitFair /\ [][NextPump]_vars /\ FairPump

\* a busy run: the long stream, written and closed by the browser, a handler
\* that answers the first message with a burst, and a stdout that takes
\* everything, so that both channels fill while every task is scheduled
BusyHandler ==
    [reply |-> "burst once", on_error |-> "ignore", fails_at |-> {}, spawn |-> 0]

InitBusy ==
    /\ endian = "little"
    /\ value = NoValue
    /\ frame = NoResult
    /\ reader = Cursor(<<>>)
    /\ w = Writer(Unlimited, FALSE)
    /\ outq = <<>>
    /\ wtask = "running"
    /\ ncalls = 0
    /\ call = NoCall
    /\ ret = NoResult
    /\ results = <<>>
    /\ stdin = Stdin(Frames(LongStream), FALSE)
    /\ handler = BusyHandler
    /\ stdout = Writer(Unlimited, FALSE)
    /\ rtask = [pc |-> "decoding"]
    /\ inq = <<>>
    /\ loop = Recv
    /\ running = {}
    /\ subtasks = {}
    /\ received = <<>>
    /\ dispatched = <<>>
    /\ outcomes = <<>>
    /\ accepted = <<>>
    /\ users = [stdin |-> {}, stdout |-> {}]
    /\ others = NoOthers
    /\ disk = NoDisk

NextBusy ==
    \/ ReaderDecode
    \/ ReaderSend
    \/ LoopRecv
    \/ HandlerSend
    \/ HandlerReturn
    \/ WriterTask

\* when its thread or task can take the step: the step's guard
ReaderDecodeReady == rtask.pc = "decoding" /\ ~Blocks(stdin)

HandlerSendReady ==
    \E h \in running :
        h.sent < Replies(h) /\ SenderSendReady(outq, wtask, ReplyValue(h))

WriterTaskReady == wtask = "running" /\ recv_ready(outq, NoSenders)

\* each guard is the enabledness of its step
ReadyIsEnabled ==
    /\ ReaderDecodeReady <=> ENABLED <<ReaderDecode>>_vars
    /\ HandlerSendReady <=> ENABLED <<HandlerSend>>_vars
    /\ WriterTaskReady <=> ENABLED <<WriterTask>>_vars

\* the scheduling of FairPump; WF_vars(A) is written out as
\* []<>~ENABLED <<A>>_vars \/ []<><<A>>_vars, with the guard for ENABLED, for
\* the three steps that decode, encode or write
FairBusy ==
    /\ []<>(~ReaderDecodeReady) \/ []<><<ReaderDecode>>_vars
    /\ WF_vars(ReaderSend)
    /\ WF_vars(LoopRecv)
    /\ []<>(~HandlerSendReady) \/ []<><<HandlerSend>>_vars
    /\ WF_vars(HandlerReturn)
    /\ []<>(~WriterTaskReady) \/ []<><<WriterTask>>_vars

SpecPumpBusy == InitBusy /\ [][NextBusy]_vars /\ FairBusy

\* a burst of replies to the one message of a stream, under the same
\* scheduling, with a stdout that takes everything, breaks after 10 bytes or
\* fails to flush: the writer's channel fills and the writer task may end
\* while a send waits
InitBurst ==
    /\ InitPump
    /\ endian = "little"
    /\ handler \in BurstHandlers

SpecPumpBurst == InitBurst /\ [][NextBusy]_vars /\ FairBusy

(***************************************************************************)
(* The one-shot helpers and a further spawn_reader call next to a running  *)
(* event_loop: every one of them opens io::stdin() or io::stdout() in a    *)
(* blocking task of its own.                                               *)
(***************************************************************************)
\* every failure of the awaited call reported as the channel's
oneshot_await_flat(sent) ==
    IF sent.some /\ sent.v.ok THEN sent.v ELSE Err(OneshotRecv)

\* rx.await.map_err(NmError::OneshotRecv)?: what the blocking task sent, or
\* OneshotRecv when the task ended without sending
oneshot_await(sent) == IF sent.some THEN sent.v ELSE Err(OneshotRecv)

\* a get_message that answers from a buffer and leaves standard input alone
get_message_buffered(r) ==
    [ret |-> decode_message(r, Usize(MAX_FROM_BROWSER)).ret, reader |-> r]

\* get_message's blocking task: decode_message(&mut stdin, MAX_FROM_BROWSER)
get_message(r) ==
    (CHOOSE y_ \in {
        [ret |-> d.ret, reader |-> d.reader]
    : d \in {decode_message(r, Usize(MAX_FROM_BROWSER))}} : TRUE)

\* the most calls of get_message and send_message next to one event_loop
MaxHelperCalls == 2

\* a few messages from the browser, answered by an echoing handler
InitShared ==
    /\ InitPump
    /\ endian = "little"
    /\ stdin \in {Stdin(Frames(ShortStream), TRUE), Stdin(Frames(ShortStream), FALSE)}
    /\ handler.reply = "echo" /\ handler.on_error = "ignore" /\ handler.fails_at = {}

\* get_message().await, at most most times: the blocking task runs and sends
\* its result, or (ran = FALSE) the runtime drops it before it has run
GetMessageOf(runs, most) == \E ran \in runs :
    /\ ncalls < most
    /\ ncalls' = ncalls + 1
    /\ call' = [op |-> "get_message", ran |-> ran]
    /\ UNCHANGED <<codec_vars, send_vars, results, rtask, inq, loop, running, handler,
                   subtasks, received, dispatched, outcomes, accepted, others,
                   disk>>
    /\ IF ran
       THEN /\ ~Blocks(stdin)
            /\ \E g \in {get_message(Refill(stdin))} :
                  stdin' = g.reader /\ ret' = oneshot_await(Some(g.ret))
            /\ users' = [users EXCEPT !.stdin = @ \cup {"get_message task"}]
       ELSE /\ ret' = oneshot_await(None)
            /\ UNCHANGED <<stdin, users>>

GetMessage == GetMessageOf({TRUE}, MaxHelperCalls)

\* a second call of spawn_reader(MAX_FROM_BROWSER); its caller keeps the
\* receiver
SpawnReader ==
    /\ others.reader2.pc = "unborn"
    /\ others' = [others EXCEPT !.reader2 = [pc |-> "decoding"]]
    /\ UNCHANGED <<disk, codec_vars, send_vars, ncalls, call, ret, results, stdin, rtask, inq,
                   loop, running, handler, subtasks, received, dispatched, outcomes,
                   accepted, users>>

\* the loop of the second reader task
Reader2Decode ==
    /\ others.reader2.pc = "decoding"
    /\ ~Blocks(stdin)
    /\ \E d \in {decode_message_opt(Refill(stdin), Usize(MAX_FROM_BROWSER))} :
          /\ stdin' = d.reader
          /\ \E item \in {reader_item(d.ret)} :
                others' = [others EXCEPT !.reader2 = [pc |-> "sending", item |-> item]]
    /\ users' = [users EXCEPT !.stdin = @ \cup {"second reader task"}]
    /\ UNCHANGED <<disk, codec_vars, send_vars, ncalls, call, ret, results, rtask, inq, loop,
                   running, handler, subtasks, received, dispatched, outcomes, accepted>>

Reader2Send ==
    /\ others.reader2.pc = "sending"
    /\ blocking_send_ready(others.rx2, FALSE)
    /\ others' = [others EXCEPT
                    !.rx2 = Append(@, others.reader2.item),
                    !.reader2 = after_blocking_send(others.reader2.item)]
    /\ UNCHANGED <<disk, codec_vars, send_vars, ncalls, call, ret, results, stdin, rtask, inq,
                   loop, running, handler, subtasks, received, dispatched, outcomes,
                   accepted, users>>

NextShared ==
    \/ NextPump
    \/ GetMessage
    \/ SendMessageOf({JNull, JBad}, MaxHelperCalls)
    \/ SpawnReader
    \/ Reader2Decode
    \/ Reader2Send

SpecShared == InitShared /\ [][NextShared]_vars

(***************************************************************************)
(* Decodes side by side.  The blocking task of get_message and the reader  *)
(* task of spawn_reader each open io::stdin() and hand it to the decode     *)
(* functions without locking it; Stdin locks the stream inside each         *)
(* read_exact call, so a decode is two steps, the read of the prefix and    *)
(* the read of the body, and the reads of other tasks can come in between.  *)
(***************************************************************************)
\* the most frames of a stream read side by side
MaxRaceFrames == 3

\* a blocking task about to decode: a get_message call or a reader task
Task(kind) == [kind |-> kind, pc |-> "prefix", at |-> 0, len |-> Usize(0), reads |-> <<>>]

\* the task once a decode has returned res, its prefix read at prefix_at and
\* its body at body_at: get_message sends decode_message's result and ends,
\* the reader task sends its item and goes on after a message
Decoded(t, prefix_at, body_at, res) ==
    LET out == IF t.kind = "get_message" THEN oneshot_await(Some(ok_or_Disconnected(res)))
               ELSE reader_item(res)
    IN  [t EXCEPT !.pc = IF t.kind = "reader" /\ out.ok THEN "prefix" ELSE "done",
                  !.reads = Append(@, [prefix_at |-> prefix_at, body_at |-> body_at,
                                       ret |-> out])]

\* the frames of the messages 1 .. k, one after the other
RECURSIVE NumberFrames(_)
NumberFrames(k) == IF k = 0 THEN <<>> ELSE Cat(NumberFrames(k - 1), PumpFrame(k))

\* the frames the browser has written: numbers, or a message whose text
\* reads as a prefix, with numbers behind it
RaceStreams ==
    { NumberFrames(k) : k \in 2..MaxRaceFrames }
    \cup { Cat(FrameOf(Lit(<<2, 0, 0, 0, 65, 66>>)), NumberFrames(k)) :
               k \in 1..(MaxRaceFrames - 1) }

\* two get_message calls at once, or get_message next to a reader task
RaceTasks ==
    { <<Task("get_message"), Task("get_message")>>,
      <<Task("reader"), Task("get_message")>> }

InitRace ==
    /\ endian \in {"little", "big"}
    /\ value = NoValue
    /\ frame = NoResult
    /\ reader = Cursor(<<>>)
    /\ w = Writer(Unlimited, FALSE)
    /\ outq = <<>>
    /\ wtask = "running"
    /\ stdout = Writer(Unlimited, FALSE)
    /\ ncalls = 0
    /\ call = NoCall
    /\ ret = NoResult
    /\ results = <<>>
    /\ \E bytes \in RaceStreams : stdin = [Stdin(<<>>, FALSE) EXCEPT !.data = bytes]
    /\ rtask = [pc |-> "unborn"]
    /\ inq = <<>>
    /\ loop = [pc |-> "uncalled"]
    /\ running = {}
    /\ handler = [reply |-> "none"]
    /\ subtasks = {}
    /\ received = <<>>
    /\ dispatched = <<>>
    /\ outcomes = <<>>
    /\ accepted = <<>>
    /\ users = [stdin |-> {}, stdout |-> {}]
    /\ \E tasks \in RaceTasks : others = [NoOthers EXCEPT !.tasks = tasks]
    /\ disk = NoDisk

\* everything but stdin and the tasks
race_vars ==
    <<codec_vars, send_vars, ncalls, call, ret, results, rtask, inq, loop, running, handler,
      subtasks, received, dispatched, outcomes, accepted, users, disk>>

\* decode_message_opt up to the cap check: reader.read_exact(&mut len_buf),
\* the two error arms, and if len > cap
TaskReadPrefix == \E i \in DOMAIN others.tasks : \E t \in {others.tasks[i]} :
    /\ t.pc = "prefix"
    /\ \E p \in {read_exact(stdin, 4)} :
          /\ stdin' = p.reader
          /\ IF p.res # "ok"
             THEN others' = [others EXCEPT
                                !.tasks[i] = Decoded(t, stdin.pos, p.reader.pos,
                                                     OnPrefixError(p.res))]
             ELSE \E len \in {AsUsize(from_ne_bytes(Explode(p.buf)))} :
                  \E cap \in {EffectiveCap(Usize(MAX_FROM_BROWSER))} :
                     IF OverCap(len, cap)
                     THEN others' = [others EXCEPT
                                        !.tasks[i] = Decoded(t, stdin.pos, p.reader.pos,
                                            RejectTooLarge(p.reader, len, cap).ret)]
                     ELSE others' = [others EXCEPT
                                        !.tasks[i] = [t EXCEPT !.pc = "body", !.at = stdin.pos,
                                                               !.len = len]]
    /\ UNCHANGED race_vars

\* the rest of decode_message_opt: the body's read_exact and String::from_utf8
TaskReadBody == \E i \in DOMAIN others.tasks : \E t \in {others.tasks[i]} :
    /\ t.pc = "body"
    /\ \E b \in {ReadBody(stdin, ToInt(t.len))} :
          /\ stdin' = b.reader
          /\ others' = [others EXCEPT !.tasks[i] = Decoded(t, t.at, stdin.pos, b.ret)]
    /\ UNCHANGED race_vars

NextRace == TaskReadPrefix \/ TaskReadBody

SpecRace == InitRace /\ [][NextRace]_vars

(***************************************************************************)
(* Successive calls of decode_message_opt on one stream with one max_size,  *)
(* as the loop of spawn_reader makes them.                                  *)
(***************************************************************************)
InitStream ==
    /\ endian \in {"little", "big"}
    /\ value = NoValue
    /\ frame = NoResult
    /\ reader \in Readers
    /\ w = Writer(Unlimited, FALSE)
    /\ outq = <<>>
    /\ wtask = "running"
    /\ stdout = Writer(Unlimited, FALSE)
    /\ ncalls = 0
    /\ call = NoCall
    /\ ret = NoResult
    /\ results = <<>>
    /\ NoPump

DecodeLoop == \E max_size \in MaxSizes :
    LET d == decode_message_opt(reader, max_size)
    IN  /\ Len(results) < MaxFrames + 2
        /\ results # <<>> => max_size = call.max_size
        /\ reader' = d.reader
        /\ ret' = d.ret
        /\ results' = Append(results, [ret |-> d.ret, consumed |-> d.reader.pos - reader.pos])
        /\ call' = [op |-> "loop", max_size |-> max_size]
        /\ ncalls' = ncalls + 1
        /\ UNCHANGED <<endian, value, frame, send_vars, pump_vars>>

NextStream == DecodeLoop

SpecStream == InitStream /\ [][NextStream]_vars

\* the payloads of a stream that is a concatenation of well-formed frames
\* within the cap, read from r's position to the end of its data
RECURSIVE PayloadsFrom(_, _)
PayloadsFrom(r, max_size) ==
    IF Remaining(r) = 0 THEN [ok |-> TRUE, ps |-> <<>>]
    ELSE IF ~(FrameReadable(r, max_size) /\ Utf8Ok(BodyAt(r), 0, 128, 191))
    THEN [ok |-> FALSE, ps |-> <<>>]
    ELSE LET rest == PayloadsFrom([r EXCEPT !.pos = r.pos + 4 + ToInt(DeclaredLen(r))],
                                  max_size)
         IN  [ok |-> rest.ok, ps |-> <<BodyAt(r)>> \o rest.ps]

\* C13 (back-to-back framing): on a stream that is the concatenation of k
\* well-formed frames followed by end-of-stream, the successive calls of
\* decode_message_opt return the k payloads in stream order, each call
\* consuming exactly 4 + length bytes, and from call k + 1 on Ok(None).
C13_BackToBack ==
    results # <<>> =>
        LET f == PayloadsFrom(Cursor(reader.data), call.max_size)
        IN  (f.ok /\ reader.fault = NoFault) =>
                \A i \in DOMAIN results :
                    IF i <= Len(f.ps)
                    THEN /\ results[i].ret = Ok(Some(f.ps[i]))
                         /\ results[i].consumed = 4 + BLen(f.ps[i])
                    ELSE /\ results[i].ret = Ok(None)
                         /\ results[i].consumed = 0

\* two different frames and the end of the stream have been read
C13_Witness ==
    /\ Len(results) = 3
    /\ reader.fault = NoFault
    /\ LET f == PayloadsFrom(Cursor(reader.data), call.max_size)
       IN  /\ f.ok
           /\ Len(f.ps) = 2
           /\ f.ps[1] # f.ps[2]
           /\ results[3].ret = Ok(None)

(***************************************************************************)
(* Properties of the send paths (checked under SpecSend)                   *)
(***************************************************************************)
EncodingFails(v) == ~Serializable(v) \/ BLen(Ser(v)) > 1048576

\* a step that is a call of one of the three send operations
IsSendCall ==
    /\ ncalls' = ncalls + 1
    /\ call'.op \in {"send_json", "Sender::send", "send_message"}

\* C4 (all-or-nothing send): a call whose encoding fails returns the encoding
\* error and changes nothing: send_json writes nothing to the writer and does
\* not flush it, Sender::send puts nothing on the writer queue and
\* send_message writes nothing to stdout, whatever the state of the writer
\* task.
C4_AllOrNothing ==
    [][ (IsSendCall /\ EncodingFails(call'.msg))
        => /\ ~ret'.ok
           /\ ret'.err.kind \in {"OutgoingTooLarge", "SerializeJson"}
           /\ UNCHANGED <<w, outq, stdout, wtask>> ]_vars

C4_Witness ==
    /\ call.op = "Sender::send"
    /\ call.msg = Blob(MAX_TO_BROWSER - 1)
    /\ wtask = "ended"
    /\ ret = Err(OutgoingTooLarge(1048577, 1048576))
    /\ stdout.buf # <<>>

\* the writer accepts all of the bytes
Accepts(wr, bytes) == \A k \in wr.room : BLen(bytes) <= k

\* C12 (write, then flush, then Ok): send_frame calls write_all with exactly
\* the given bytes and then flush, in that order.  When the write fails the
\* result is Io with the write's error and flush is not called; when the write
\* succeeds and the flush fails the result is Io with the flush's error; Ok is
\* returned only after both succeeded.
C12_WriteThenFlush ==
    call.op = "send_frame" =>
        LET b == call.before
            written == Accepts(b, call.bytes)
        IN  /\ w.ops = b.ops \o (IF written THEN <<"write_all", "flush">> ELSE <<"write_all">>)
            /\ written => w.buf = Cat(b.buf, call.bytes)
            /\ ~written => /\ ret = Err(Io("BrokenPipe"))
                           /\ w.flushes = b.flushes
            /\ (written /\ b.fail_flush) => ret = Err(Io("Other"))
            /\ ret.ok <=> (written /\ ~b.fail_flush)
            /\ ret.ok => (ret = Ok(Unit) /\ w.flushes = b.flushes + 1)

\* a failed write: the call log of the writer ends with the write
C12_Witness ==
    /\ call.op = "send_frame"
    /\ BLen(call.bytes) > 0
    /\ ret = Err(Io("BrokenPipe"))
    /\ w.ops # <<>>
    /\ w.ops[Len(w.ops)] = "write_all"


(***************************************************************************)
(* Properties of the pump and the event loop                                *)
(***************************************************************************)
\* the one message of a chunk that is exactly one well-formed frame
IsMessage(chunk, payload) ==
    /\ chunk.fault = {}
    /\ LET f == PayloadsFrom(Cursor(chunk.bytes), Usize(MAX_FROM_BROWSER))
       IN  f.ok /\ f.ps = <<payload>>

\* C14 (sequential in-order dispatch): the handler is invoked exactly once for
\* each message event_loop dequeues, the i-th invocation on the i-th frame
\* received on stdin, and no invocation starts before the future of the
\* previous one has completed: the only invocation that can be running is the
\* latest, and event_loop is awaiting it.
C14_InOrderDispatch ==
    /\ Len(dispatched) = Cardinality({i \in DOMAIN received : received[i].ok})
    /\ \A i \in DOMAIN dispatched :
          /\ received[i] = Ok(dispatched[i])
          /\ i <= Len(stdin.wrote)
          /\ IsMessage(stdin.wrote[i], dispatched[i])
    /\ \A h \in running :
          /\ h.n = Len(dispatched)
          /\ h.msg = dispatched[h.n]
          /\ loop.pc = "handling"
          /\ loop.n = h.n

\* the second of two different messages is being handled
C14_Witness ==
    /\ Len(dispatched) = 2
    /\ dispatched[1] # dispatched[2]
    /\ \E h \in running : h.n = 2
    /\ Len(inq) > 0


\* the reader task has met the clean end of stdin: it holds the sentinel, or
\* the sentinel is queued, or event_loop has received it
EofSeen ==
    \/ rtask.pc = "sending" /\ rtask.item = Err(Disconnected)
    \/ \E i \in DOMAIN inq : inq[i] = Err(Disconnected)
    \/ \E i \in DOMAIN received : received[i] = Err(Disconnected)

\* C15 (clean stop on disconnect): once stdin has reached its clean end,
\* event_loop stops; having received the sentinel it returns Ok(()), so the
\* reader's Disconnected is never returned to the caller as an error, and it
\* is never passed to the handler.
C15_CleanStop ==
    /\ [](/\ (loop.pc = "returned" /\ received # <<>>
                /\ received[Len(received)] = Err(Disconnected)) => loop.ret = Ok(Unit)
          /\ Len(dispatched) = Cardinality({i \in DOMAIN received : received[i].ok}))
    /\ (EofSeen ~> loop.pc = "returned")

\* event_loop has returned Ok(()) on the sentinel after handling two messages
C15_Witness ==
    /\ loop.pc = "returned"
    /\ loop.ret = Ok(Unit)
    /\ Len(dispatched) = 2
    /\ received[Len(received)] = Err(Disconnected)


\* C16 (fail-fast, no retry): an error item other than Disconnected from the
\* reader, and an error returned by a handler invocation, is what event_loop
\* returns to its caller, and once event_loop has returned no handler is
\* invoked again, whatever was still queued.
C16_FailFast ==
    /\ [](/\ (received # <<>> /\ ~received[Len(received)].ok
                /\ received[Len(received)] # Err(Disconnected))
             => (loop.pc = "returned" /\ loop.ret = received[Len(received)])
          /\ \A i \in DOMAIN outcomes :
                ~outcomes[i].ok => /\ i = Len(outcomes)
                                   /\ loop.pc = "returned"
                                   /\ loop.ret = outcomes[i])
    /\ [][loop.pc = "returned" => (dispatched' = dispatched /\ loop' = loop)]_vars

\* a handler's error has been returned while messages were still queued
C16_Witness ==
    /\ loop.pc = "returned"
    /\ ~loop.ret.ok
    /\ loop.dropped > 0
    /\ outcomes # <<>>
    /\ loop.ret = outcomes[Len(outcomes)]
    /\ rtask.pc = "ended"


\* the reader task has met the end of stdin or an I/O error on it
ReaderFailed ==
    LET failure(item) == ~item.ok /\ item.err.kind \in {"Disconnected", "Io"}
    IN  \/ rtask.pc = "sending" /\ failure(rtask.item)
        \/ \E i \in DOMAIN inq : failure(inq[i])
        \/ \E i \in DOMAIN received : failure(received[i])

\* the writer task has ended on a failed write or a failed flush of stdout
WriterFailed ==
    /\ wtask = "ended"
    /\ stdout.ops # <<>>
    /\ stdout.ops[Len(stdout.ops)] = "write_all" \/ stdout.fail_flush

\* C17 (every transport-level error terminates the loop): whenever the reader
\* task meets the end of stdin or an I/O error, or the writer task a failed
\* write or flush of stdout, event_loop eventually returns, whether or not
\* the handler passes on the errors of its reply sends.
C17_TransportErrorTerminates == (ReaderFailed \/ WriterFailed) ~> loop.pc = "returned"


\* the reader task holds a decoded item that the full channel does not take
ReaderWaits ==
    rtask.pc = "sending" /\ Len(inq) = ReaderQueueCap /\ loop.pc # "returned"

\* a handler's send finds the writer's channel full
SenderWaits ==
    /\ Len(outq) = WriterQueueCap
    /\ wtask = "running"
    /\ \E h \in running : h.sent < Replies(h)

\* C18 (bounded queues and back-pressure): the reader's channel and the
\* writer's channel never hold more than 32 items; the browser's writes read
\* from stdin are never more than 33 ahead of the items event_loop has taken;
\* while its channel is full the reader task keeps the item it holds and reads
\* nothing more from stdin, and no send is accepted by the writer's full channel:
\* the waiting handler stays where it is.
C18_BackPressure ==
    /\ [](/\ Len(inq) <= ReaderQueueCap
          /\ Len(outq) <= WriterQueueCap
          /\ Len(stdin.wrote) <= Len(received) + ReaderQueueCap + 1)
    /\ [][/\ ReaderWaits =>
                /\ rtask' = rtask
                /\ Len(inq') <= Len(inq)
                /\ stdin'.wrote = stdin.wrote /\ stdin'.data = stdin.data
                /\ stdin'.pos = stdin.pos
          /\ SenderWaits =>
                /\ accepted' = accepted
                /\ Len(outq') <= Len(outq)
                /\ \A h \in running : h.sent < Replies(h) => h \in running']_vars

C18_Witness ==
    /\ ReaderWaits
    /\ rtask.item.ok
    /\ Len(stdin.wrote) = Len(received) + ReaderQueueCap + 1


\* C19 as stated (stream exclusivity): no operation of the module other than
\* the single reader task reads stdin and none other than the single writer
\* task writes stdout, get_message, send_message and a second spawn_reader
\* call included.
C19_StreamExclusivity ==
    /\ users.stdin \subseteq {"reader task"}
    /\ users.stdout \subseteq {"writer task"}

\* a step takes bytes from standard input, or puts bytes on standard output
\* or flushes it
Unread(r) == [Refill(r) EXCEPT !.open = TRUE]

ReadsStdin == Unread(stdin') # Unread(stdin)

WritesStdout == stdout' # stdout

\* the steps of the blocking tasks: a decode of a reader task, a turn of the
\* writer task, a call of get_message or of send_message
ReaderTaskStep == rtask.pc = "decoding" /\ rtask'.pc = "sending"

SecondReaderStep == others.reader2.pc = "decoding" /\ others'.reader2.pc = "sending"

WriterTaskStep == wtask = "running" /\ outq # <<>> /\ (outq' = Tail(outq) \/ wtask' = "ended")

HelperStep(op) == ncalls' = ncalls + 1 /\ call'.op = op

\* a step of event_loop itself, of a handler or of a sub-task
LoopSideStep ==
    <<loop, running, subtasks, received, dispatched, outcomes, accepted>>'
        # <<loop, running, subtasks, received, dispatched, outcomes, accepted>>

\* C19 as amended: one event_loop call runs one reader task and one writer
\* task, and event_loop itself, its handlers, their sub-tasks and Sender::send
\* never read stdin or write stdout.  Standard input is read only in a decode
\* of that reader task, of the reader task of a further spawn_reader call, or
\* in the blocking task of a get_message call, which takes its message from
\* the stream; standard output is written only in a turn of the writer task
\* or in the blocking task of a send_message call, which writes its frame to
\* the stream.
C19_OwnBlockingTasks ==
    /\ [](/\ users.stdin \subseteq {"reader task", "second reader task", "get_message task"}
          /\ users.stdout \subseteq {"writer task", "send_message task"})
    /\ [][/\ ReadsStdin =>
                ReaderTaskStep \/ SecondReaderStep \/ HelperStep("get_message")
          /\ WritesStdout => WriterTaskStep \/ HelperStep("send_message")
          /\ LoopSideStep => ~ReadsStdin /\ ~WritesStdout
          /\ (HelperStep("get_message") /\ ret'.ok) => ReadsStdin
          /\ (HelperStep("send_message") /\ ret'.ok) => WritesStdout]_vars

C19_Witness ==
    /\ call.op = "get_message" /\ ret.ok
    /\ received # <<>> /\ received[1].ok
    /\ users.stdin = {"reader task", "second reader task", "get_message task"}
    /\ users.stdout = {"writer task", "send_message task"}

\* the bytes of frames i..j of fs, one after the other
RECURSIVE Concat(_, _, _)
Concat(fs, i, j) ==
    IF i > j THEN <<>>
    ELSE IF i = j THEN fs[i]
    ELSE (CHOOSE y_ \in {
             Cat(Concat(fs, i, m), Concat(fs, m + 1, j))
         : m \in {(i + j) \div 2}} : TRUE)

\* the frames the writer task has begun to write
Begun == Cardinality({ i \in DOMAIN stdout.ops : stdout.ops[i] = "write_all" })

\* write_all and flush are called in turn
WriteFlushInTurn ==
    \A i \in DOMAIN stdout.ops : stdout.ops[i] = IF i % 2 = 1 THEN "write_all" ELSE "flush"

\* C20 as stated (uncorrupted, ordered output): whatever the interleaving of
\* the sends of handlers and sub-tasks, the bytes on stdout are always the
\* first frames accepted by the writer's channel, whole and in the order of
\* their acceptance, each written and flushed before the next begins.
C20_WholeFramesInOrder ==
    /\ WriteFlushInTurn
    /\ Begun <= Len(accepted)
    /\ stdout.buf = Concat(accepted, 1, Begun)

\* C20 as amended: the bytes on stdout are the first frames accepted by the
\* writer's channel, in the order of their acceptance, each written and
\* flushed before the next begins, and the frames still queued are the
\* accepted ones that follow; all of them are whole but the last one begun
\* when its write failed: then stdout ends with the part of that frame the
\* stream took and the writer task has ended.  No frame is duplicated or
\* interleaved with another.
C20_FramesInOrder ==
    /\ WriteFlushInTurn
    /\ Begun <= Len(accepted)
    /\ wtask = "running" => outq = SubSeq(accepted, Begun + 1, Len(accepted))
    /\ IF Len(stdout.ops) % 2 = 0
       THEN stdout.buf = Concat(accepted, 1, Begun)
       ELSE /\ wtask = "ended"
            /\ (CHOOSE y_ \in {(CHOOSE y_ \in {
                    /\ 0 <= k /\ k < BLen(accepted[Begun])
                    /\ stdout.buf = Cat(whole, BTake(accepted[Begun], k))
                : k \in {BLen(stdout.buf) - BLen(whole)}} : TRUE)
                : whole \in {Concat(accepted, 1, Begun - 1)}} : TRUE)

\* replies of the handler and of its sub-tasks have reached stdout
C20_Witness ==
    /\ handler.spawn = MaxSubtasks
    /\ subtasks = {}
    /\ Len(accepted) >= 3
    /\ stdout.flushes = Len(accepted)


\* C21 (Sender::send reports Disconnected when delivery is impossible): a
\* completed Sender::send of a value that encodes returns Err(Disconnected)
\* exactly when the writer task had ended, leaving the queue as it was;
\* otherwise it returns Ok(()) with the value's frame placed at the end of
\* the queue.
C21_SendDisconnected ==
    [][(HelperStep("Sender::send") /\ encode_message(call'.msg).ok) =>
          /\ (ret' = Err(Disconnected)) <=> (wtask = "ended")
          /\ ret'.ok \/ ret' = Err(Disconnected)
          /\ IF wtask = "ended" THEN outq' = outq
             ELSE outq' = Append(outq, encode_message(call'.msg).val)]_vars

C21_Witness ==
    /\ call.op = "Sender::send"
    /\ encode_message(call.msg).ok
    /\ ret = Err(Disconnected)
    /\ wtask = "ended"


\* C22 (single terminal sentinel): a read of the reader task that finds a
\* closed stdin with nothing left makes Err(Disconnected) its item; an error
\* item is pushed once, while event_loop still holds the receiver, and the
\* task ends with it.  The reader queue holds at most one error item, in
\* last place, and once it is there nothing is enqueued any more; the reader
\* task has never ended without an error item at the end of the queue while
\* event_loop was still receiving.
C22_TerminalSentinel ==
    /\ [](/\ \A i \in DOMAIN inq : ~inq[i].ok => i = Len(inq) /\ rtask.pc = "ended"
          /\ \A i \in DOMAIN received :
                ~received[i].ok => i = Len(received) /\ rtask.pc = "ended" /\ inq = <<>>
          /\ (rtask.pc = "ended" /\ loop.pc # "returned") =>
                inq # <<>> /\ ~inq[Len(inq)].ok)
    /\ [][/\ (ReaderTaskStep /\ ~ReadsStdin /\ stdin'.fault = {}) =>
                rtask'.item = Err(Disconnected)
          /\ (rtask.pc = "sending" /\ ~rtask.item.ok /\ rtask' # rtask) =>
                /\ rtask'.pc = "ended"
                /\ loop.pc # "returned" => inq' = Append(inq, rtask.item)
          /\ rtask.pc = "ended" => rtask' = rtask /\ Len(inq') <= Len(inq)]_vars

C22_Witness ==
    /\ rtask.pc = "ended"
    /\ loop.pc # "returned"
    /\ Len(inq) >= 2
    /\ inq[Len(inq)] = Err(Disconnected)


\* decode_message_opt has returned an error to the reader task
DecodeFailed ==
    LET failure(item) == ~item.ok /\ item # Err(Disconnected)
    IN  \/ rtask.pc = "sending" /\ failure(rtask.item)
        \/ \E i \in DOMAIN inq : failure(inq[i])
        \/ \E i \in DOMAIN received : failure(received[i])

\* C23 (the reader stops at the first decode failure): once decode_message_opt
\* has returned IncomingTooLarge, IncomingNotUtf8 or Io, the reader task holds
\* that error until it is pushed, once, and then has ended; from the failure
\* on stdin is not read again, so the bytes behind the bad frame stay unread.
C23_StopAtFirstFailure ==
    /\ [](DecodeFailed =>
            /\ rtask.pc \in {"sending", "ended"}
            /\ rtask.pc = "sending" =>
                  /\ ~rtask.item.ok
                  /\ \A i \in DOMAIN inq : inq[i].ok
                  /\ \A i \in DOMAIN received : received[i].ok)
    /\ [][DecodeFailed => (~ReadsStdin /\ (rtask' # rtask => rtask'.pc = "ended"))]_vars

\* the error is with event_loop and the message behind the bad frame is
\* still on stdin
C23_Witness ==
    /\ rtask.pc = "ended"
    /\ received # <<>>
    /\ received[Len(received)] = Err(IncomingNotUtf8)
    /\ Remaining(stdin) > 0


\* a turn of the writer task in which write_all or flush fails
FailingTurn ==
    /\ wtask = "running" /\ outq # <<>>
    /\ stdout' # stdout
    /\ Len(stdout'.ops) % 2 = 1 \/ stdout.fail_flush

\* C24 (the writer gives up on the first output failure): the turn of the
\* writer task in which a write or a flush fails makes that one attempt, ends
\* the task and drops the frames still queued, and tells event_loop, the
\* handlers and the reader nothing; after it the writer task stays ended and
\* stdout never changes again.
C24_WriterGivesUp ==
    [][/\ FailingTurn =>
            /\ wtask' = "ended"
            /\ outq' = <<>>
            /\ Len(stdout'.ops) <= Len(stdout.ops) + 2
            /\ UNCHANGED <<loop, running, subtasks, inq, rtask, outcomes, received>>
       /\ WriterFailed => wtask' = "ended" /\ stdout' = stdout /\ outq' = <<>>]_vars

\* frames were waiting behind the one whose write failed, and more were
\* offered afterwards
C24_Witness ==
    /\ WriterFailed
    /\ Begun < Len(accepted)
    /\ \E i \in DOMAIN outcomes : outcomes[i] = Err(Disconnected)


\* C25 (pump lifecycle): once the reader task has met the clean end of stdin,
\* or a write to stdout has failed, or event_loop has returned and dropped the
\* receiver of the reader queue, the reader task and the writer task both
\* end eventually; no pump task outlives event_loop for ever.
C25_PumpLifecycle ==
    (\/ \E i \in DOMAIN received : received[i] = Err(Disconnected)
     \/ \E i \in DOMAIN inq : inq[i] = Err(Disconnected)
     \/ rtask.pc = "sending" /\ rtask.item = Err(Disconnected)
     \/ WriterFailed
     \/ loop.pc = "returned")
        ~> (rtask.pc = "ended" /\ wtask = "ended")


(***************************************************************************)
(* get_message on its own: a host that reads its messages one call at a    *)
(* time, without event_loop.                                               *)
(***************************************************************************)
InitGet ==
    /\ endian \in {"little", "big"}
    /\ value = NoValue
    /\ frame = NoResult
    /\ reader = Cursor(<<>>)
    /\ w = Writer(Unlimited, FALSE)
    /\ outq = <<>>
    /\ wtask = "running"
    /\ stdout = Writer(Unlimited, FALSE)
    /\ ncalls = 0
    /\ call = NoCall
    /\ ret = NoResult
    /\ results = <<>>
    /\ \E k \in 0..ShortStream : stdin \in Stdins(k)
    /\ rtask = [pc |-> "unborn"]
    /\ inq = <<>>
    /\ loop = [pc |-> "uncalled"]
    /\ running = {}
    /\ handler = [reply |-> "none"]
    /\ subtasks = {}
    /\ received = <<>>
    /\ dispatched = <<>>
    /\ outcomes = <<>>
    /\ accepted = <<>>
    /\ users = [stdin |-> {}, stdout |-> {}]
    /\ others = NoOthers
    /\ disk = NoDisk

GetMessageOnce == GetMessageOf(BOOLEAN, MaxCalls)

NextGet == GetMessageOnce \/ CloseStdin

SpecGet == InitGet /\ [][NextGet]_vars

(***************************************************************************)
(* Manifest installer (install/manifest.rs) and the removal of registry    *)
(* pointers (install/winreg.rs).  A path is the sequence of its            *)
(* components.  disk holds the directories, the files with their contents, *)
(* the directories whose entries the process may not create or remove, and *)
(* the registry keys with their default value.  The JSON text of a         *)
(* manifest is kept as the object it denotes: its keys and their values.   *)
(***************************************************************************)
\* std::io::Error of a kind
IoError(kind) == [io |-> kind]

EmptyMap == [q \in {} |-> 0]

Put(f, k, v) == [q \in DOMAIN f \cup {k} |-> IF q = k THEN v ELSE f[q]]

Drop(f, k) == [q \in DOMAIN f \ {k} |-> f[q]]

\* env::var("HOME") and the working directory of the process
HOME == <<"/", "home", "user">>

Cwd == <<"/", "work">>

\* Path::join
join(dir, file) == Append(dir, file)

parent(p) == SubSeq(p, 1, Len(p) - 1)

\* get_browser_info(): the browsers the installer knows and their directories
get_browser_info ==
    [b \in {"chrome", "firefox"} |->
        IF b = "chrome"
        THEN [registry |-> Some("Software\\Google\\Chrome\\NativeMessagingHosts"),
              linux |-> Some(HOME \o <<".config", "google-chrome", "NativeMessagingHosts">>),
              darwin |-> Some(HOME \o <<"Library", "Application Support", "Google", "Chrome",
                                        "NativeMessagingHosts">>)]
        ELSE [registry |-> Some("Software\\Mozilla\\NativeMessagingHosts"),
              linux |-> Some(HOME \o <<".mozilla", "native-messaging-hosts">>),
              darwin |-> Some(HOME \o <<"Library", "Application Support", "Mozilla",
                                        "NativeMessagingHosts">>)]]

\* Path::exists
path_exists(d, p) == p \in d.dirs \/ p \in DOMAIN d.files

\* fs::create_dir_all: the missing ancestors are created from the top; a
\* directory that may not be changed takes no new entry
RECURSIVE create_dirs(_, _, _)
create_dirs(d, p, k) ==
    IF k > Len(p) THEN [ret |-> Ok(Unit), disk |-> d]
    ELSE IF SubSeq(p, 1, k) \in d.dirs THEN create_dirs(d, p, k + 1)
    ELSE IF SubSeq(p, 1, k - 1) \in d.locked
         THEN [ret |-> Err(IoError("PermissionDenied")), disk |-> d]
    ELSE create_dirs([d EXCEPT !.dirs = @ \cup {SubSeq(p, 1, k)}], p, k + 1)

create_dir_all(d, p) == create_dirs(d, p, 1)

\* fs::canonicalize: the absolute path of an existing file
canonicalize(d, p) ==
    LET abs == IF p # <<>> /\ p[1] = "/" THEN p ELSE Cwd \o p
    IN  IF path_exists(d, abs) THEN Ok(abs) ELSE Err(IoError("NotFound"))

\* write_file: File::create(filename)?.write_all(contents)
write_file(d, filename, contents) ==
    IF parent(filename) \notin d.dirs
    THEN [ret |-> Err(IoError("NotFound")), disk |-> d]
    ELSE IF filename \notin DOMAIN d.files /\ parent(filename) \in d.locked
    THEN [ret |-> Err(IoError("PermissionDenied")), disk |-> d]
    ELSE [ret |-> Ok(Unit), disk |-> [d EXCEPT !.files = Put(@, filename, contents)]]

\* fs::remove_file
remove_file(d, filename) ==
    IF filename \notin DOMAIN d.files
    THEN [ret |-> Err(IoError("NotFound")), disk |-> d]
    ELSE IF parent(filename) \in d.locked
    THEN [ret |-> Err(IoError("PermissionDenied")), disk |-> d]
    ELSE [ret |-> Ok(Unit), disk |-> [d EXCEPT !.files = Drop(@, filename)]]

\* struct Manifest
Manifest(name, description, path, allowed_origins, allowed_extensions) ==
    [name |-> name, description |-> description, path |-> path,
     allowed_origins |-> allowed_origins, allowed_extensions |-> allowed_extensions]

\* serde_json::to_string_pretty(manifest): the fields of the struct, an
\* allow-list that is None left out (skip_serializing_if)
to_string_pretty(m) ==
    [k \in {"name", "description", "path"}
            \cup (IF m.allowed_origins.some THEN {"allowed_origins"} ELSE {})
            \cup (IF m.allowed_extensions.some THEN {"allowed_extensions"} ELSE {}) |->
        IF k \in {"allowed_origins", "allowed_extensions"} THEN m[k].v ELSE m[k]]

\* write_manifest(browser, path, &mut manifest): the manifest is changed in
\* place before it is written
write_manifest(d, browser, path, manifest) ==
    LET m == IF browser = "firefox" THEN [manifest EXCEPT !.allowed_origins = None]
             ELSE IF browser = "chrome" THEN [manifest EXCEPT !.allowed_extensions = None]
             ELSE manifest
        r == write_file(d, path, to_string_pretty(m))
    IN  [ret |-> r.ret, disk |-> r.disk, manifest |-> m]

\* format!("{}.json", name)
manifest_name(name) == name \o ".json"

\* install_unix(browsers, &mut manifest)
RECURSIVE install_unix(_, _, _)
install_unix(d, browsers, manifest) ==
    IF browsers = <<>> THEN [ret |-> Ok(Unit), disk |-> d]
    ELSE LET browser == Head(browsers)
         IN  IF browser \notin DOMAIN get_browser_info
                  \/ ~get_browser_info[browser].linux.some
             THEN install_unix(d, Tail(browsers), manifest)
             ELSE LET manifest_path == get_browser_info[browser].linux.v
                      c == IF ~path_exists(d, manifest_path)
                           THEN create_dir_all(d, manifest_path)
                           ELSE [ret |-> Ok(Unit), disk |-> d]
                      wm == write_manifest(c.disk, browser,
                                           join(manifest_path, manifest_name(manifest.name)),
                                           manifest)
                  IN  IF ~c.ret.ok THEN c
                      ELSE IF ~wm.ret.ok THEN [ret |-> wm.ret, disk |-> wm.disk]
                      ELSE install_unix(wm.disk, Tail(browsers), wm.manifest)

\* install(name, description, path, browsers)
install(d, name, description, path, browsers) ==
    LET c == canonicalize(d, path)
    IN  IF ~c.ok THEN [ret |-> c, disk |-> d]
        ELSE install_unix(d, browsers, Manifest(name, description, c.val, None, None))

\* verify(name)
verify(d, name) ==
    Ok(\E b \in DOMAIN get_browser_info :
          /\ get_browser_info[b].linux.some
          /\ path_exists(d, join(get_browser_info[b].linux.v, manifest_name(name))))

\* a removal that deletes without looking
remove_one_unchecked(d, name, browser) ==
    IF browser \notin DOMAIN get_browser_info \/ ~get_browser_info[browser].linux.some
    THEN [ret |-> Ok(Unit), disk |-> d]
    ELSE remove_file(d, join(get_browser_info[browser].linux.v, manifest_name(name)))

\* the body of remove's loop: the manifest file of one browser is deleted if
\* it exists
remove_one(d, name, browser) ==
    IF browser \notin DOMAIN get_browser_info \/ ~get_browser_info[browser].linux.some
    THEN [ret |-> Ok(Unit), disk |-> d]
    ELSE LET manifest_file == join(get_browser_info[browser].linux.v, manifest_name(name))
         IN  IF path_exists(d, manifest_file) THEN remove_file(d, manifest_file)
             ELSE [ret |-> Ok(Unit), disk |-> d]

\* remove(name, browsers)
RECURSIVE remove(_, _, _)
remove(d, name, browsers) ==
    IF browsers = <<>> THEN [ret |-> Ok(Unit), disk |-> d]
    ELSE LET r == remove_one(d, name, Head(browsers))
         IN  IF ~r.ret.ok THEN r ELSE remove(r.disk, name, Tail(browsers))

\* RegKey::delete_subkey_all under the root of the scope
delete_subkey_all(d, scope, key_path) ==
    IF <<scope, key_path>> \notin DOMAIN d.reg
    THEN [ret |-> Err(IoError("NotFound")), disk |-> d]
    ELSE [ret |-> Ok(Unit), disk |-> [d EXCEPT !.reg = Drop(@, <<scope, key_path>>)]]

\* remove_manifest_reg(scope, key_path): a missing key is no error
remove_manifest_reg(d, scope, key_path) ==
    LET r == delete_subkey_all(d, scope, key_path)
    IN  IF ~r.ret.ok /\ r.ret.err = IoError("NotFound")
        THEN [ret |-> Ok(Unit), disk |-> r.disk]
        ELSE r

\* the hosts, executables, browser lists and registry keys of the calls
HostNames == {"com.example.host", "com.example.other"}

Description == "Example host"

ExePaths == { <<"/", "usr", "bin", "true">>, <<"bin", "host">>, <<"/", "opt", "missing">> }

BrowserLists ==
    { <<>>, <<"chrome">>, <<"firefox">>, <<"firefox", "chrome">>,
      <<"chrome", "firefox", "edge">> }

RegKeys == { <<"User", "Software\\Google\\Chrome\\NativeMessagingHosts\\com.example.host">>,
             <<"System", "Software\\Mozilla\\NativeMessagingHosts\\com.example.host">> }

\* a well-formed Firefox manifest put in place before the run
OldManifest ==
    [name |-> "com.example.host", description |-> "Old host", path |-> <<"/", "old">>,
     type |-> "stdio", allowed_extensions |-> <<"old@example.org">>]

\* the machine before the run: the two executables; nothing installed, or the
\* home directory closed to changes, or a Firefox manifest in a directory
\* closed to changes; no registry key or one
Disks ==
    LET dirs == { <<"/">>, <<"/", "home">>, HOME, <<"/", "usr">>, <<"/", "usr", "bin">>,
                  Cwd, Cwd \o <<"bin">> }
        exes == Put(Put(EmptyMap, <<"/", "usr", "bin", "true">>, [exe |-> TRUE]),
                    Cwd \o <<"bin", "host">>, [exe |-> TRUE])
        mozilla == get_browser_info["firefox"].linux.v
        regs == { EmptyMap,
                  Put(EmptyMap,
                      <<"User", "Software\\Google\\Chrome\\NativeMessagingHosts\\com.example.host">>,
                      <<"C:", "manifests", "com.example.host.json">>) }
    IN  { [dirs |-> dirs, files |-> exes, locked |-> l, reg |-> r] :
              l \in { {}, {HOME} }, r \in regs }
        \cup { [dirs |-> dirs \cup {SubSeq(mozilla, 1, k) : k \in 1..Len(mozilla)},
                files |-> Put(exes, join(mozilla, manifest_name("com.example.host")),
                              OldManifest),
                locked |-> {mozilla}, reg |-> r] : r \in regs }

InitInstall ==
    /\ endian \in {"little"}
    /\ value = NoValue
    /\ frame = NoResult
    /\ reader = Cursor(<<>>)
    /\ w = Writer(Unlimited, FALSE)
    /\ outq = <<>>
    /\ wtask = "running"
    /\ stdout = Writer(Unlimited, FALSE)
    /\ ncalls = 0
    /\ call = NoCall
    /\ ret = NoResult
    /\ results = <<>>
    /\ stdin = Stdin(<<>>, TRUE)
    /\ rtask = [pc |-> "unborn"]
    /\ inq = <<>>
    /\ loop = [pc |-> "uncalled"]
    /\ running = {}
    /\ handler = [reply |-> "none"]
    /\ subtasks = {}
    /\ received = <<>>
    /\ dispatched = <<>>
    /\ outcomes = <<>>
    /\ accepted = <<>>
    /\ users = [stdin |-> {}, stdout |-> {}]
    /\ others = NoOthers
    /\ disk \in Disks

\* everything but the last call, its result and the disk
host_vars ==
    <<endian, value, frame, reader, w, outq, wtask, stdout, ncalls, results, stdin, rtask,
      inq, loop, running, handler, subtasks, received, dispatched, outcomes, accepted,
      users, others>>

Install == \E name \in HostNames, path \in ExePaths, browsers \in BrowserLists :
    \E r \in {install(disk, name, Description, path, browsers)} :
        /\ call' = [op |-> "install", name |-> name, description |-> Description,
                    path |-> path, browsers |-> browsers]
        /\ ret' = r.ret
        /\ disk' = r.disk
        /\ UNCHANGED host_vars

Verify == \E name \in HostNames :
    /\ call' = [op |-> "verify", name |-> name]
    /\ ret' = verify(disk, name)
    /\ UNCHANGED <<disk, host_vars>>

Remove == \E name \in HostNames, browsers \in BrowserLists :
    \E r \in {remove(disk, name, browsers)} :
        /\ call' = [op |-> "remove", name |-> name, browsers |-> browsers]
        /\ ret' = r.ret
        /\ disk' = r.disk
        /\ UNCHANGED host_vars

RemoveManifestReg == \E k \in RegKeys :
    \E r \in {remove_manifest_reg(disk, k[1], k[2])} :
        /\ call' = [op |-> "remove_manifest_reg", scope |-> k[1], key_path |-> k[2]]
        /\ ret' = r.ret
        /\ disk' = r.disk
        /\ UNCHANGED host_vars

NextInstall == Install \/ Verify \/ Remove \/ RemoveManifestReg

SpecInstall == InitInstall /\ [][NextInstall]_vars

\* the reader task and the writer task have ended and event_loop has returned
Finished == rtask.pc = "ended" /\ loop.pc = "returned" /\ running = {} /\ wtask = "ended"

\* the reader task, event_loop with its handler, or the writer task can take
\* a step
CanStep ==
    \/ ReaderDecodeReady
    \/ ENABLED <<ReaderSend>>_vars
    \/ ENABLED <<LoopRecv>>_vars
    \/ HandlerSendReady
    \/ ENABLED <<HandlerReturn>>_vars
    \/ WriterTaskReady

\* the messages the reader task has decoded and event_loop has yet to take
Undispatched ==
    Cardinality({ i \in DOMAIN inq : inq[i].ok })
        + (IF rtask.pc = "sending" /\ rtask.item.ok THEN 1 ELSE 0)

\* every frame the browser wrote has been dispatched and every frame the
\* writer's channel accepted is written and flushed
Drained ==
    /\ stdin.todo = <<>>
    /\ Undispatched = 0
    /\ Len(dispatched) = Len(stdin.wrote)
    /\ outq = <<>>
    /\ Begun = Len(accepted)
    /\ stdout.flushes = Len(accepted)

\* C26 (deadlock freedom and progress): with the reader task, event_loop and
\* its handler, and the writer task scheduled fairly, a stdout that takes every
\* write and a handler that completes without an error, some task can always
\* take a step until all have finished: reader, dispatch and writer are never
\* all blocked.  Every frame received on stdin is dispatched to the handler
\* in the end and every reply the writer's channel accepted is written and
\* flushed, also from a state where both channels are full.
C26_DeadlockFreeProgress ==
    /\ [](Finished \/ CanStep)
    /\ <>[]Drained

\* both channels are full: the reader task holds a message the reader queue
\* does not take, and the handler's next send waits on the full writer queue
C26_Witness ==
    /\ ReaderWaits
    /\ rtask.item.ok
    /\ Len(outq) = WriterQueueCap
    /\ wtask = "running"
    /\ \E h \in running : h.sent < Replies(h)


\* C27 (one-shot get_message): a get_message call whose blocking task ran
\* returns Ok(payload) exactly when a whole frame within 64 MiB with a UTF-8
\* body is next on stdin, and takes exactly that frame from the stream; it
\* returns Err(Disconnected) exactly on a clean end of the stream, and
\* otherwise the error of the decode, IncomingTooLarge with max = 67,108,864
\* for a longer declared length.  It returns OneshotRecv exactly when the
\* task ended without a result, with stdin untouched, and never for an
\* outcome of the decode.
C27_OneShotGet ==
    [][HelperStep("get_message") =>
        LET b == Refill(stdin)
            max == Usize(67108864)
            whole == FrameReadable(b, max) /\ Utf8Ok(BodyAt(b), 0, 128, 191)
        IN  /\ (ret' = Err(OneshotRecv)) <=> ~call'.ran
            /\ ~call'.ran => stdin' = stdin
            /\ call'.ran =>
                  /\ ret'.ok <=> whole
                  /\ whole => /\ ret' = Ok(BodyAt(b))
                              /\ stdin' = [b EXCEPT !.pos = b.pos + 4 + BLen(ret'.val)]
                  /\ (ret' = Err(Disconnected))
                        <=> (Remaining(b) \in 0..3 /\ b.fault = NoFault)
                  /\ (~ret'.ok /\ ret' # Err(Disconnected))
                        => ret' = decode_message_opt(b, max).ret
                  /\ (PrefixReadable(b) /\ WideGt(DeclaredLen(b), max))
                        => ret' = Err(IncomingTooLarge(DeclaredLen(b), max))]_vars

\* two messages were read, then the clean end of the stream
C27_Witness ==
    /\ call.op = "get_message"
    /\ call.ran
    /\ ret = Err(Disconnected)
    /\ ncalls = 3
    /\ Len(stdin.wrote) = 2
    /\ ~stdin.open


\* the manifest file of the host is in the directory of the browser
HasManifest(d, browser, name) ==
    /\ browser \in DOMAIN get_browser_info
    /\ join(get_browser_info[browser].linux.v, manifest_name(name)) \in DOMAIN d.files

\* C28 (install / verify / remove lifecycle): after install has succeeded for
\* a host name and a set of browsers, a manifest file <host>.json exists for
\* each of those browsers and verify reports true; after a successful remove
\* that follows with the same host name and browsers, none of those files
\* exists and verify reports false.
C28_Lifecycle ==
    [][/\ (call'.op = "install" /\ ret'.ok /\ call'.browsers # <<>>) =>
             /\ \A i \in DOMAIN call'.browsers :
                   HasManifest(disk', call'.browsers[i], call'.name)
             /\ verify(disk', call'.name) = Ok(TRUE)
       /\ (/\ call.op = "install" /\ ret.ok /\ call.browsers # <<>>
           /\ call'.op = "remove" /\ ret'.ok
           /\ call'.name = call.name /\ call'.browsers = call.browsers) =>
             /\ \A i \in DOMAIN call'.browsers :
                   ~HasManifest(disk', call'.browsers[i], call'.name)
             /\ verify(disk', call'.name) = Ok(FALSE)]_vars


\* C29 (removal is idempotent): remove for a host none of whose manifests is
\* present, and remove_manifest_reg for a key that is absent, return Ok and
\* leave the file system and the registry as they were; the second of two
\* calls in a row with the same arguments changes nothing.
C29_RemoveIdempotent ==
    [][/\ call'.op = "remove" =>
             /\ (\A i \in DOMAIN call'.browsers :
                    ~HasManifest(disk, call'.browsers[i], call'.name))
                   => (ret' = Ok(Unit) /\ disk' = disk)
             /\ (call.op = "remove" /\ call.name = call'.name
                    /\ call.browsers = call'.browsers) => disk' = disk
       /\ call'.op = "remove_manifest_reg" =>
             /\ <<call'.scope, call'.key_path>> \notin DOMAIN disk.reg
                   => (ret' = Ok(Unit) /\ disk' = disk)
             /\ (call.op = "remove_manifest_reg" /\ call.scope = call'.scope
                    /\ call.key_path = call'.key_path) => disk' = disk]_vars

\* remove has returned Ok for browsers whose directories were never created
C29_Witness ==
    /\ call.op = "remove"
    /\ call.browsers = <<"chrome", "firefox", "edge">>
    /\ ret = Ok(Unit)
    /\ \A b \in DOMAIN get_browser_info : get_browser_info[b].linux.v \notin disk.dirs
    /\ disk.reg = EmptyMap


\* C30 (manifest shape per browser family): every manifest that install
\* writes carries the given name and description and "type": "stdio"; one
\* written for a Chromium-family browser has allowed_origins and no
\* allowed_extensions, one written for Firefox has allowed_extensions and no
\* allowed_origins.
C30_ManifestShape ==
    [][call'.op = "install" =>
          \A p \in DOMAIN disk'.files :
              (p \notin DOMAIN disk.files \/ disk'.files[p] # disk.files[p]) =>
                  LET m == disk'.files[p]
                      keys == DOMAIN m
                  IN  /\ {"name", "description", "type"} \subseteq keys
                      /\ m.name = call'.name
                      /\ m.description = call'.description
                      /\ m.type = "stdio"
                      /\ parent(p) = get_browser_info["chrome"].linux.v =>
                            ("allowed_origins" \in keys /\ "allowed_extensions" \notin keys)
                      /\ parent(p) = get_browser_info["firefox"].linux.v =>
                            ("allowed_extensions" \in keys /\ "allowed_origins" \notin keys)]_vars


\* C31 (relative executable path): install called with a host executable
\* path that is not absolute returns an error of kind InvalidInput and writes
\* no manifest file for any browser.
C31_RelativePathRejected ==
    [][(call'.op = "install" /\ Head(call'.path) # "/") =>
          /\ ret' = Err(IoError("InvalidInput"))
          /\ disk'.files = disk.files]_vars


\* an invocation of the handler has returned an error
HandlerFailed == \E i \in DOMAIN outcomes : ~outcomes[i].ok

\* C32 (no message is skipped ahead of a terminal event): unless an invocation
\* of the handler has returned an error, event_loop returns only on taking the
\* reader's error item, when that item is all the queue holds and the handler
\* has completed for every message before it; once it has returned, every
\* message the reader task decoded from stdin has been dispatched, in order,
\* and none was dropped with the queue.
C32_NoSkipAhead ==
    /\ []((loop.pc = "returned" /\ ~HandlerFailed) =>
            /\ loop.dropped = 0
            /\ running = {}
            /\ Len(outcomes) = Len(dispatched)
            /\ received # <<>> /\ ~received[Len(received)].ok
            /\ \A i \in DOMAIN stdin.wrote :
                  LET chunk == stdin.wrote[i]
                      f == PayloadsFrom(Cursor(chunk.bytes), Usize(MAX_FROM_BROWSER))
                  IN  (chunk.fault = {} /\ f.ok /\ Len(f.ps) = 1) =>
                          i <= Len(dispatched) /\ dispatched[i] = f.ps[1])
    /\ [][(loop.pc # "returned" /\ loop'.pc = "returned" /\ ~HandlerFailed') =>
            /\ Len(inq) = 1
            /\ ~inq[1].ok
            /\ received' = Append(received, inq[1])
            /\ running = {}
            /\ Len(outcomes) = Len(dispatched)]_vars

\* event_loop has returned the decode error that was queued behind two
\* messages, after handling both
C32_Witness ==
    /\ loop.pc = "returned"
    /\ loop.ret = Err(IncomingNotUtf8)
    /\ Len(dispatched) = 2
    /\ outcomes = <<Ok(Unit), Ok(Unit)>>
    /\ Len(stdin.wrote) = 3


\* C33 (reader shutdown after the consumer is gone): once event_loop has
\* returned and dropped the receiver, the reader task ends at its next push,
\* which enqueues nothing and reads nothing; of the browser's writes it has
\* read at most one more than the items event_loop took or dropped with the
\* queue; and while it waits in a read it leaves that read only when stdin
\* delivers a frame, an error or its end, going on to the push.
C33_ReaderShutdown ==
    /\ [](loop.pc = "returned" =>
            /\ inq = <<>>
            /\ Len(stdin.wrote) <= Len(received) + loop.dropped + 1)
    /\ [][loop.pc = "returned" =>
            /\ inq' = inq /\ loop' = loop /\ received' = received
            /\ (rtask.pc = "sending" /\ rtask' # rtask) =>
                  rtask'.pc = "ended" /\ ~ReadsStdin
            /\ (rtask.pc = "decoding" /\ rtask' # rtask) =>
                  rtask'.pc = "sending" /\ ~Blocks(stdin)
            /\ rtask.pc = "ended" => rtask' = rtask /\ ~ReadsStdin]_vars

\* the handler failed on the second message; the reader task has read the
\* browser's third write, found nobody to take it and ended
C33_Witness ==
    /\ loop.pc = "returned"
    /\ HandlerFailed
    /\ rtask.pc = "ended"
    /\ Len(received) = 2
    /\ loop.dropped = 0
    /\ Len(stdin.wrote) = 3


\* C34 (the writer drains before it stops): once event_loop has returned and
\* every Sender is dropped the writer task ends eventually; it never ends
\* while a frame is queued unless a write or a flush has failed, and when it
\* has ended without such a failure every Sender was dropped, the queue is
\* empty and stdout holds the frames of all the sends that returned Ok, each
\* once, in the order they were accepted, each flushed.
C34_WriterDrains ==
    /\ []((wtask = "ended" /\ ~WriterFailed) =>
            /\ NoSenders
            /\ outq = <<>>
            /\ Begun = Len(accepted)
            /\ stdout.flushes = Len(accepted)
            /\ stdout.buf = Concat(accepted, 1, Len(accepted)))
    /\ [][(wtask = "running" /\ outq # <<>> /\ wtask' = "ended") => FailingTurn]_vars
    /\ (NoSenders ~> wtask = "ended")

\* the writer task has ended after writing the reply of the handler and the
\* frame of its sub-task, both flushed
C34_Witness ==
    /\ wtask = "ended"
    /\ ~WriterFailed
    /\ handler.spawn = MaxSubtasks
    /\ Len(accepted) = 2
    /\ stdout.flushes = Len(accepted)


\* the invocations whose next reply is still to be sent
Pending == { h \in running : h.sent < Replies(h) }

\* C35 (a blocked send never hangs on a dead writer): a send of a handler
\* completes only when the writer task has ended, and then with
\* Err(Disconnected), the frame not accepted, or when the writer's channel has
\* room, and then with Ok(()), the frame placed last in the queue; and a send
\* that found the channel full, and a send pending when the writer task has
\* ended, completes eventually.
C35_BlockedSend ==
    /\ [][\A h \in Pending : h \notin running' =>
            LET f == encode_message(ReplyValue(h)).val
            IN  IF wtask = "ended"
                THEN /\ accepted' = accepted
                     /\ outq' = outq
                     /\ IF handler.on_error = "propagate"
                        THEN outcomes' = Append(outcomes, Err(Disconnected))
                        ELSE [h EXCEPT !.sent = h.sent + 1] \in running'
                ELSE /\ Len(outq) < WriterQueueCap
                     /\ accepted' = Append(accepted, f)
                     /\ outq' = Append(outq, f)
                     /\ [h EXCEPT !.sent = h.sent + 1] \in running']_vars
    /\ \A k \in 0..(Burst - 1) :
          ((SenderWaits \/ wtask = "ended") /\ \E h \in Pending : h.sent = k)
              ~> ~(\E h \in Pending : h.sent = k)

\* the first flush of stdout failed while the channel was full and the next
\* send was waiting, and the handler was told Disconnected
C35_Witness ==
    /\ stdout.fail_flush
    /\ WriterFailed
    /\ Len(accepted) = WriterQueueCap
    /\ outcomes = <<Err(Disconnected)>>


\* the offsets at which the frames of a stream start, from r's position on
RECURSIVE FrameStarts(_)
FrameStarts(r) ==
    IF ~FrameReadable(r, Usize(MAX_FROM_BROWSER)) THEN {}
    ELSE {r.pos} \cup FrameStarts([r EXCEPT !.pos = r.pos + 4 + ToInt(DeclaredLen(r))])

\* C36 (concurrent one-shot reads stay frame-aligned): when get_message runs
\* side by side with another get_message call or with a reader task, the
\* prefix a task reads is the prefix of a frame the browser wrote, the body
\* it reads is the body that follows that prefix, and the message it
\* obtains is that frame's payload.
C36_FrameAligned ==
    \A i \in DOMAIN others.tasks :
        LET t == others.tasks[i]
            starts == FrameStarts([stdin EXCEPT !.pos = 0])
        IN  /\ t.pc = "body" => t.at \in starts
            /\ \A j \in DOMAIN t.reads :
                  LET rd == t.reads[j]
                  IN  rd.prefix_at < BLen(stdin.data) =>
                        /\ rd.prefix_at \in starts
                        /\ rd.body_at = rd.prefix_at + 4
                        /\ rd.ret = Ok(BodyAt([stdin EXCEPT !.pos = rd.prefix_at]))


\* C37 (a zero-length frame is a message, not a disconnect): when the four
\* bytes of a prefix can be read and declare the length 0, decode_message_opt
\* returns Ok(Some("")) whatever its max_size, 0 included, and the reader has
\* advanced by exactly those four bytes; the item the reader task makes of
\* that result is Ok(""), after which it goes on to decode the next frame.
C37_ZeroLengthFrame ==
    ( /\ call.op = "decode_message_opt"
      /\ PrefixReadable(call.before)
      /\ DeclaredLen(call.before) = Usize(0) )
    => /\ ret = Ok(Some(<<>>))
       /\ reader = [call.before EXCEPT !.pos = call.before.pos + 4]
       /\ reader_item(ret) = Ok(<<>>)
       /\ after_blocking_send(reader_item(ret)) = [pc |-> "decoding"]

\* with max_size = 0, the empty message that ends the stream was returned
\* after another frame
C37_Witness ==
    /\ call.op = "decode_message_opt"
    /\ call.max_size = Usize(0)
    /\ call.before.pos > 0
    /\ Remaining(call.before) = 4
    /\ DeclaredLen(call.before) = Usize(0)
    /\ ret = Ok(Some(<<>>))


\* C38 (the length prefix never truncates): a frame that encode_message
\* returns has a payload of at most 1,048,576 bytes, and the length a decoder
\* reads back from its prefix is the length of that payload, so the cast to
\* u32 has lost nothing; and whenever a decode function has read a prefix
\* and not rejected it as too large, the length it declares is at most
\* 67,108,864.
C38_PrefixNeverTruncates ==
    /\ frame.ok =>
          LET len == BLen(Ser(value))
          IN  /\ len <= 1048576
              /\ BLen(frame.val) = 4 + len
              /\ ToInt(DeclaredLen(Cursor(frame.val))) = len
    /\ (IsDecode /\ PrefixReadable(call.before)
          /\ ~(~ret.ok /\ ret.err.kind = "IncomingTooLarge")) =>
          ToInt(DeclaredLen(call.before)) <= 67108864

\* a payload of exactly 1,048,576 bytes was encoded and its frame decoded
C38_Witness ==
    /\ frame.ok
    /\ BLen(Ser(value)) = MAX_TO_BROWSER
    /\ call.op = "decode_message"
    /\ call.before = Cursor(frame.val)
    /\ ret.ok
    /\ BLen(ret.val) = MAX_TO_BROWSER


====
